---- MODULE Spec2Model ----
(***************************************************************************)
(* Model of the TTS emotion router plugin                                  *)
(* (astrbot_plugin_tts_emotion_router): the reply pipeline                 *)
(* on_decorating_result, the condition gate, the marker protocol and the   *)
(* SiliconFlow synthesis provider with its on-disk cache.                  *)
(*                                                                         *)
(* Texts are sequences of tokens.  A token stands for a fixed piece of     *)
(* text (see TokWidth); the regular expressions of core/marker.py and      *)
(* utils/extract.py are modelled on these tokens class by class.           *)
(***************************************************************************)
EXTENDS Integers, Sequences, FiniteSets, TLC

None == "none"

\* ------------------------------------------------------------------------
\* Tokens and character classes
\* ------------------------------------------------------------------------

\* core/constants.py EMOTIONS (the two labels the replies of the pipelines carry)
EmotionToks == {"happy", "sad"}

\* the configured marker tag ("EMO"), matched case-insensitively
TAG == "T"

\* width in characters of the text a token stands for
TokWidth(c) ==
    CASE c = "[" -> 1
      [] c = "]" -> 1
      [] c = ":" -> 1
      [] c = " " -> 1
      [] c = "zw" -> 1
      [] c = "T" -> 3
      [] c = "happy" -> 5
      [] c = "sad" -> 3
      [] c = "w" -> 2
      [] c = "long" -> 50
      [] c = "url" -> 10
      [] c = "code" -> 5
      [] c = "lnk" -> 2
      [] c = "cod" -> 2
      [] c = "angry" -> 5
      [] c = "neutral" -> 7
      [] c = "joy" -> 3
      [] c = "zh" -> 2
      [] c = "lol" -> 3
      [] c = "tmd" -> 3
      [] c = "!" -> 1
      [] c = "fence" -> 10
      [] c = "URL" -> 10
      [] c = "FENCE" -> 10
      [] OTHER -> 1

IsSpace(c) == c = " "
IsOpen(c) == c \in {"["}
IsClose(c) == c \in {"]"}
IsColon(c) == c \in {":"}
IsPunct(c) == c \in {":"}
\* (happy|sad|angry|neutral)
IsEmotion(c) == c \in {"happy", "sad", "angry", "neutral"}
\* [a-z] under re.I
IsAlpha(c) == c \in {"T", "happy", "sad", "w", "long", "angry", "neutral", "joy", "lol", "tmd"}
\* core/constants.py INVISIBLE_CHARS
IsInvisible(c) == c = "zw"

At(s, i) == IF i >= 1 /\ i <= Len(s) THEN s[i] ELSE "$"

Drop(s, n) == SubSeq(s, n + 1, Len(s))

RECURSIVE SkipSp(_, _)
SkipSp(s, i) == IF IsSpace(At(s, i)) THEN SkipSp(s, i + 1) ELSE i

RECURSIVE SkipPunct(_, _)
SkipPunct(s, i) == IF IsPunct(At(s, i)) THEN SkipPunct(s, i + 1) ELSE i

RECURSIVE SkipAlpha(_, _)
SkipAlpha(s, i) == IF IsAlpha(At(s, i)) THEN SkipAlpha(s, i + 1) ELSE i

RECURSIVE LStrip(_)
LStrip(s) == IF s # <<>> /\ IsSpace(s[1]) THEN LStrip(Tail(s)) ELSE s

RECURSIVE RStrip(_)
RStrip(s) ==
    IF s # <<>> /\ IsSpace(s[Len(s)]) THEN RStrip(SubSeq(s, 1, Len(s) - 1)) ELSE s

\* str.strip()
Strip(s) == RStrip(LStrip(s))

RECURSIVE CharLen(_)
\* len(text)
CharLen(s) == IF s = <<>> THEN 0 ELSE TokWidth(s[1]) + CharLen(Tail(s))

\* ------------------------------------------------------------------------
\* core/marker.py : EmotionMarkerProcessor
\* ------------------------------------------------------------------------

RECURSIVE normalize_text(_)
\* removes every invisible character
normalize_text(s) ==
    IF s = <<>> THEN s
    ELSE IF IsInvisible(s[1]) THEN normalize_text(Tail(s))
    ELSE <<s[1]>> \o normalize_text(Tail(s))

\* _marker_strict_re at position i: index of the closing bracket, 0 if no match
StrictEnd(s, i) ==
    LET a == SkipSp(s, i + 1)
        b == SkipSp(s, a + 1)
        c == SkipSp(s, b + 1)
        d == SkipSp(s, c + 1)
    IN IF At(s, i) = "[" /\ At(s, a) = TAG /\ At(s, b) = ":"
          /\ IsEmotion(At(s, c)) /\ At(s, d) = "]"
       THEN d ELSE 0

\* _marker_mid_visible_re at position i: index of the closing bracket, 0 if no match
MidVisibleEnd(s, i) ==
    LET a == SkipSp(s, i + 1)
        b == SkipSp(s, a + 1)
        c == SkipSp(s, b + 1)
        d == SkipSp(s, c + 1)
    IN IF IsOpen(At(s, i)) /\ At(s, a) = TAG /\ IsColon(At(s, b))
          /\ IsEmotion(At(s, c)) /\ IsClose(At(s, d))
       THEN d ELSE 0

RECURSIVE StrictSubAll(_, _)
\* _marker_strict_re.sub("", text): leftmost non-overlapping matches, one pass
StrictSubAll(s, i) ==
    IF i > Len(s) THEN <<>>
    ELSE IF StrictEnd(s, i) > 0 THEN StrictSubAll(s, StrictEnd(s, i) + 1)
    ELSE <<s[i]>> \o StrictSubAll(s, i + 1)

RECURSIVE MidVisibleSubAll(_, _)
\* _marker_mid_visible_re.sub('', text)
MidVisibleSubAll(s, i) ==
    IF i > Len(s) THEN <<>>
    ELSE IF MidVisibleEnd(s, i) > 0 THEN MidVisibleSubAll(s, MidVisibleEnd(s, i) + 1)
    ELSE <<s[i]>> \o MidVisibleSubAll(s, i + 1)

\* does the text contain an exact-form marker [TAG:emotion]
HasStrictMarker(s) == \E i \in 1..Len(s) : StrictEnd(s, i) > 0

\* the trailing part of _head_token_re: \s*[,:-]*\s*
TokenTail(s, i) == SkipSp(s, SkipPunct(s, SkipSp(s, i)))

\* _head_token_re.match(text): number of tokens matched (0: no match) and label
HeadTokenMatch(s) ==
    LET p == SkipSp(s, 1)
        a == SkipSp(s, p + 1)
        b == SkipSp(s, a + 1)
        c == SkipSp(s, b + 1)
        d == SkipSp(s, c + 1)
        q == SkipSp(s, p + 1)
        r == SkipSp(s, q + 1)
        br == IsOpen(At(s, p)) /\ At(s, a) = TAG
        brLbl == br /\ IsColon(At(s, b)) /\ IsEmotion(At(s, c)) /\ IsClose(At(s, d))
        brNo == br /\ IsClose(At(s, b))
        bare == At(s, p) = TAG
        bareLbl == bare /\ IsColon(At(s, q)) /\ IsEmotion(At(s, r))
    IN IF brLbl THEN [n |-> TokenTail(s, d + 1) - 1, lbl |-> At(s, c)]
       ELSE IF brNo THEN [n |-> TokenTail(s, b + 1) - 1, lbl |-> None]
       ELSE IF bareLbl THEN [n |-> TokenTail(s, r + 1) - 1, lbl |-> At(s, r)]
       ELSE IF bare THEN [n |-> TokenTail(s, p + 1) - 1, lbl |-> None]
       ELSE [n |-> 0, lbl |-> None]

\* normalize_label on a run of tokens: the canonical words are their own
\* synonyms, "joy" and the Chinese word "zh" are synonyms of happy
normalize_label(raw) ==
    IF Len(raw) = 1 /\ IsEmotion(raw[1]) THEN raw[1]
    ELSE IF raw = <<"joy">> \/ raw = <<"zh">> THEN "happy"
    ELSE None

\* _head_anylabel_re.match(text)
HeadAnyLabelMatch(s) ==
    LET p == SkipSp(s, 1)
        a == SkipSp(s, p + 1)
        b == SkipSp(s, a + 1)
        c == SkipSp(s, b + 1)
        e == SkipAlpha(s, c)
        d == SkipSp(s, e)
    IN IF IsOpen(At(s, p)) /\ At(s, a) = TAG /\ IsColon(At(s, b))
          /\ e > c /\ IsClose(At(s, d))
       THEN [n |-> d, lbl |-> normalize_label(SubSeq(s, c, e - 1))]
       ELSE [n |-> 0, lbl |-> None]

\* _marker_any_re.match(text): number of tokens matched, 0 if no match
MarkerAnyMatch(s) ==
    LET p == SkipSp(s, 1)
        a == SkipSp(s, p + 1)
        b == SkipSp(s, a + 1)
        c == SkipSp(s, b + 1)
        e == SkipAlpha(s, c)
        d == SkipSp(s, e)
    IN IF IsOpen(At(s, p)) /\ At(s, a) = TAG
       THEN IF IsColon(At(s, b)) /\ IsClose(At(s, d)) THEN d
            ELSE IF IsClose(At(s, b)) THEN b
            ELSE 0
       ELSE 0

\* strip_head that returns what the pattern left, white space included
strip_head_untrimmed(s) ==
    LET ht == HeadTokenMatch(s)
        al == HeadAnyLabelMatch(s)
    IN IF s = <<>> THEN [text |-> s, label |-> None]
       ELSE IF ht.n > 0 THEN [text |-> Drop(s, ht.n), label |-> ht.lbl]
       ELSE IF al.n > 0 THEN [text |-> Drop(s, al.n), label |-> al.lbl]
       ELSE IF IsOpen(At(LStrip(s), 1))
            THEN [text |-> Drop(s, MarkerAnyMatch(s)), label |-> None]
       ELSE [text |-> s, label |-> None]

\* strip_head(text) -> (cleaned, label)
strip_head(s) ==
    LET ht == HeadTokenMatch(s)
        al == HeadAnyLabelMatch(s)
    IN IF s = <<>> THEN [text |-> s, label |-> None]
       ELSE IF ht.n > 0 THEN [text |-> Strip(Drop(s, ht.n)), label |-> ht.lbl]
       ELSE IF al.n > 0 THEN [text |-> Strip(Drop(s, al.n)), label |-> al.lbl]
       ELSE IF IsOpen(At(LStrip(s), 1))
            THEN [text |-> Strip(Drop(s, MarkerAnyMatch(s))), label |-> None]
       ELSE [text |-> s, label |-> None]

RECURSIVE StripHeadLoop(_, _)
\* the while loop of strip_head_many
StripHeadLoop(s, last) ==
    LET r == strip_head(s)
        nl == IF r.label # None THEN r.label ELSE last
    IN IF r.text = s THEN [text |-> s, label |-> nl]
       ELSE StripHeadLoop(r.text, nl)

\* strip_head_many(text) -> (cleaned, last label)
strip_head_many(s) ==
    LET h == StripHeadLoop(s, None)
    IN [text |-> Strip(StrictSubAll(h.text, 1)), label |-> h.label]

RECURSIVE CollapseSpaces(_)
\* _cleanup_spaces_re.sub(' ', text)
CollapseSpaces(s) ==
    IF s = <<>> THEN s
    ELSE IF IsSpace(s[1]) /\ IsSpace(At(s, 2)) THEN CollapseSpaces(Tail(s))
    ELSE <<s[1]>> \o CollapseSpaces(Tail(s))

\* _marker_head_visible_re.sub at the start of the text
HeadVisibleSub(s) ==
    LET p == SkipSp(s, 1)
        e == MidVisibleEnd(s, p)
    IN IF e > 0 THEN Drop(s, SkipSp(s, e + 1) - 1) ELSE s

\* strip_all_visible_markers(text)
strip_all_visible_markers(s) ==
    Strip(CollapseSpaces(MidVisibleSubAll(HeadVisibleSub(s), 1)))

\* ------------------------------------------------------------------------
\* utils/extract.py : CodeAndLinkExtractor
\* ------------------------------------------------------------------------

\* characters the url pattern goes on consuming after the scheme
IsUrlChar(c) ==
    ~(IsSpace(c) \/ IsOpen(c) \/ IsClose(c) \/ c \in {"code", "fence", "FENCE", "lnk", "cod", "zh", "$"})

RECURSIVE SkipUrl(_, _)
SkipUrl(s, i) == IF IsUrlChar(At(s, i)) THEN SkipUrl(s, i + 1) ELSE i

RECURSIVE ExtractFrom(_, _)
\* the finditer loop of process_text from position i on
ExtractFrom(s, i) ==
    IF i > Len(s) THEN [clean |-> <<>>, speak |-> <<>>, links |-> <<>>, codes |-> <<>>]
    ELSE IF s[i] \in {"code", "fence", "FENCE"}
         THEN LET r == ExtractFrom(s, i + 1)
              IN [clean |-> <<s[i]>> \o r.clean,
                  speak |-> <<" ", "cod", " ">> \o r.speak,
                  links |-> r.links,
                  codes |-> <<s[i]>> \o r.codes]
    ELSE IF s[i] \in {"url", "URL"}
         THEN LET e == SkipUrl(s, i + 1)
                  r == ExtractFrom(s, e)
              IN [clean |-> r.clean,
                  speak |-> <<" ", "lnk", " ">> \o r.speak,
                  links |-> <<"nl">> \o SubSeq(s, i, e - 1) \o r.links,
                  codes |-> r.codes]
    ELSE LET r == ExtractFrom(s, i + 1)
         IN [clean |-> <<s[i]>> \o r.clean, speak |-> <<s[i]>> \o r.speak,
             links |-> r.links, codes |-> r.codes]

\* process_text(text) -> ProcessedText
process_text(s) == ExtractFrom(s, 1)

\* the text sent back with the reply (main.py, "send_text")
BuildSendText(p, show_references) ==
    Strip(p.clean)
      \o (IF show_references /\ p.links # <<>> THEN <<"reflinks">> \o p.links ELSE <<>>)
      \o (IF show_references /\ p.codes # <<>> THEN <<"refcodes">> \o p.codes ELSE <<>>)

\* ------------------------------------------------------------------------
\* emotion/infer.py : heuristic classifier (scores in tenths)
\* ------------------------------------------------------------------------

HasTok(s, c) == \E i \in 1..Len(s) : s[i] = c

\* is_informational: a url with its scheme in lower case (URL_RE is compiled
\* without re.I), a fenced code block, or inline code with inner white space
is_informational(s) ==
    HasTok(s, "url") \/ HasTok(s, "fence") \/ HasTok(s, "FENCE") \/ HasTok(s, "code")

\* tokens that text.upper() changes
HasLower(c) ==
    c \in {"happy", "sad", "w", "long", "url", "code", "angry", "neutral", "joy", "lol",
           "tmd", "fence"}
\* tokens holding a character for which isalpha() is true
HasLetter(c) ==
    c \in {"T", "happy", "sad", "w", "long", "url", "code", "lnk", "cod", "angry",
           "neutral", "joy", "zh", "lol", "tmd", "fence", "URL", "FENCE"}

AllCaps(s) ==
    /\ Strip(s) # <<>>
    /\ \A i \in 1..Len(s) : ~HasLower(s[i])
    /\ \E i \in 1..Len(s) : HasLetter(s[i])

\* default keyword hits per label (DEFAULT_EMOTION_KEYWORDS_LIST)
\* (each keyword found in the text adds 1.0, however often it occurs)
KeywordScore(s, emo) ==
    CASE emo = "happy" -> (IF HasTok(s, "lol") THEN 10 ELSE 0)
                            + (IF HasTok(s, "zh") THEN 10 ELSE 0)
      [] emo = "sad" -> (IF HasTok(s, "sad") THEN 10 ELSE 0)
      [] emo = "angry" -> (IF HasTok(s, "tmd") THEN 10 ELSE 0)
      [] OTHER -> 0

\* the score of a label: keywords, 0.5 for an exclamation mark and 1.0 for a
\* text in upper case on angry
ClassifyScore(s, emo) ==
    KeywordScore(s, emo)
      + (IF emo = "angry" /\ HasTok(s, "!") THEN 5 ELSE 0)
      + (IF emo = "angry" /\ AllCaps(s) THEN 10 ELSE 0)

\* classify that returns neutral only below the threshold
classify_below_threshold(s) ==
    LET h == ClassifyScore(s, "happy")
        d == ClassifyScore(s, "sad")
        a == ClassifyScore(s, "angry")
        label == IF h >= d /\ h >= a THEN "happy"
                 ELSE IF d >= a THEN "sad" ELSE "angry"
    IN IF is_informational(s) THEN "neutral"
       ELSE IF ClassifyScore(s, label) < 5 THEN "neutral"
       ELSE label

\* classify without the informational rule
classify_no_informational(s) ==
    LET h == ClassifyScore(s, "happy")
        d == ClassifyScore(s, "sad")
        a == ClassifyScore(s, "angry")
        label == IF h >= d /\ h >= a THEN "happy"
                 ELSE IF d >= a THEN "sad" ELSE "angry"
    IN IF ClassifyScore(s, label) <= 5 THEN "neutral"
       ELSE label

\* classify(text) without context
classify(s) ==
    LET h == ClassifyScore(s, "happy")
        d == ClassifyScore(s, "sad")
        a == ClassifyScore(s, "angry")
        label == IF h >= d /\ h >= a THEN "happy"
                 ELSE IF d >= a THEN "sad" ELSE "angry"
    IN IF is_informational(s) THEN "neutral"
       ELSE IF ClassifyScore(s, label) <= 5 THEN "neutral"
       ELSE label

\* ------------------------------------------------------------------------
\* core/tts_processor.py : TTSConditionChecker
\* ------------------------------------------------------------------------

\* check_cooldown with the comparison elapsed > cooldown
check_cooldown_strict(cooldown, last_ts, tnow) ==
    IF cooldown <= 0 THEN [ok |-> TRUE, remaining |-> 0]
    ELSE IF tnow - last_ts > cooldown THEN [ok |-> TRUE, remaining |-> 0]
    ELSE [ok |-> FALSE, remaining |-> cooldown - (tnow - last_ts)]

\* check_cooldown(last_ts) at time tnow -> (ok, remaining)
check_cooldown(cooldown, last_ts, tnow) ==
    IF cooldown <= 0 THEN [ok |-> TRUE, remaining |-> 0]
    ELSE IF tnow - last_ts >= cooldown THEN [ok |-> TRUE, remaining |-> 0]
    ELSE [ok |-> FALSE, remaining |-> cooldown - (tnow - last_ts)]

\* check_probability() with the drawn value roll (percent)
check_probability(prob, roll) == roll <= prob

\* check_all with the cooldown check placed before the length check
check_all_cooldown_first(c, len, st, has_non_plain, tnow, roll) ==
    LET effective_mixed == IF st.text_voice_enabled # None
                           THEN st.text_voice_enabled = "true"
                           ELSE c.allow_mixed
        cd == check_cooldown(c.cooldown, st.last_ts, tnow)
    IN IF has_non_plain /\ ~effective_mixed
       THEN [passed |-> FALSE, reason |-> "mixed", remaining |-> 0, draws |-> 0]
       ELSE IF ~cd.ok
       THEN [passed |-> FALSE, reason |-> "cooldown", remaining |-> cd.remaining, draws |-> 0]
       ELSE IF c.text_limit > 0 /\ len > c.text_limit
       THEN [passed |-> FALSE, reason |-> "length", remaining |-> 0, draws |-> 0]
       ELSE IF ~check_probability(c.prob, roll)
       THEN [passed |-> FALSE, reason |-> "probability", remaining |-> 0, draws |-> 1]
       ELSE [passed |-> TRUE, reason |-> "", remaining |-> 0, draws |-> 1]

\* check_all whose mixed-content check reads the global default alone
check_all_global_mixed(c, len, st, has_non_plain, tnow, roll) ==
    LET cd == check_cooldown(c.cooldown, st.last_ts, tnow)
    IN IF has_non_plain /\ ~c.allow_mixed
       THEN [passed |-> FALSE, reason |-> "mixed", remaining |-> 0, draws |-> 0]
       ELSE IF c.text_limit > 0 /\ len > c.text_limit
       THEN [passed |-> FALSE, reason |-> "length", remaining |-> 0, draws |-> 0]
       ELSE IF ~cd.ok
       THEN [passed |-> FALSE, reason |-> "cooldown", remaining |-> cd.remaining, draws |-> 0]
       ELSE IF ~check_probability(c.prob, roll)
       THEN [passed |-> FALSE, reason |-> "probability", remaining |-> 0, draws |-> 1]
       ELSE [passed |-> TRUE, reason |-> "", remaining |-> 0, draws |-> 1]

\* check_all(text, session_state, has_non_plain_elements); c is the checker,
\* len the text length, st the session record, roll the value random.random()
\* yields if it is called.  draws counts the calls of random.random().
check_all(c, len, st, has_non_plain, tnow, roll) ==
    LET effective_mixed == IF st.text_voice_enabled # None
                           THEN st.text_voice_enabled = "true"
                           ELSE c.allow_mixed
        cd == check_cooldown(c.cooldown, st.last_ts, tnow)
    IN IF has_non_plain /\ ~effective_mixed
       THEN [passed |-> FALSE, reason |-> "mixed", remaining |-> 0, draws |-> 0]
       ELSE IF c.text_limit > 0 /\ len > c.text_limit
       THEN [passed |-> FALSE, reason |-> "length", remaining |-> 0, draws |-> 0]
       ELSE IF ~cd.ok
       THEN [passed |-> FALSE, reason |-> "cooldown", remaining |-> cd.remaining, draws |-> 0]
       ELSE IF ~check_probability(c.prob, roll)
       THEN [passed |-> FALSE, reason |-> "probability", remaining |-> 0, draws |-> 1]
       ELSE [passed |-> TRUE, reason |-> "", remaining |-> 0, draws |-> 1]

\* ------------------------------------------------------------------------
\* core/tts_processor.py : TTSProcessor, TTSResultBuilder
\* ------------------------------------------------------------------------

EMOTIONS == {"happy", "sad", "angry", "neutral"}

\* core/constants.py EMOTION_PREFERENCE_MAP
EMOTION_PREFERENCE_MAP(e) ==
    CASE e = "sad" -> "angry"
      [] e = "angry" -> "angry"
      [] e = "happy" -> "happy"
      [] e = "neutral" -> "happy"
      [] OTHER -> None

\* vm.get(key) on a voice map kept as a sequence of <<key, voice>> pairs
VmGet(vm, key) ==
    IF \E i \in 1..Len(vm) : vm[i][1] = key
    THEN vm[CHOOSE i \in 1..Len(vm) : vm[i][1] = key][2]
    ELSE ""

\* first entry of the voice map with a non-empty voice
VmFirst(vm) ==
    IF \E i \in 1..Len(vm) : vm[i][2] # ""
    THEN LET k == CHOOSE i \in 1..Len(vm) :
                    vm[i][2] # "" /\ \A j \in 1..(i - 1) : vm[j][2] = ""
         IN [key |-> vm[k][1], voice |-> vm[k][2]]
    ELSE [key |-> None, voice |-> ""]

\* pick_voice_for_emotion without the fallbacks after neutral
pick_voice_exact_or_neutral(vm, emotion) ==
    IF VmGet(vm, emotion) # "" THEN [key |-> emotion, voice |-> VmGet(vm, emotion)]
    ELSE IF VmGet(vm, "neutral") # "" THEN [key |-> "neutral", voice |-> VmGet(vm, "neutral")]
    ELSE [key |-> None, voice |-> ""]

\* pick_voice_for_emotion with the preference mapping tried before neutral
pick_voice_preference_first(vm, emotion) ==
    LET pref == EMOTION_PREFERENCE_MAP(emotion)
    IN IF VmGet(vm, emotion) # "" THEN [key |-> emotion, voice |-> VmGet(vm, emotion)]
       ELSE IF pref # None /\ VmGet(vm, pref) # "" THEN [key |-> pref, voice |-> VmGet(vm, pref)]
       ELSE IF VmGet(vm, "neutral") # "" THEN [key |-> "neutral", voice |-> VmGet(vm, "neutral")]
       ELSE IF VmGet(vm, "happy") # "" THEN [key |-> "happy", voice |-> VmGet(vm, "happy")]
       ELSE IF VmGet(vm, "angry") # "" THEN [key |-> "angry", voice |-> VmGet(vm, "angry")]
       ELSE VmFirst(vm)

\* pick_voice_for_emotion(emotion) -> (key, voice); voice "" stands for None
pick_voice_for_emotion(vm, emotion) ==
    LET pref == EMOTION_PREFERENCE_MAP(emotion)
    IN IF VmGet(vm, emotion) # "" THEN [key |-> emotion, voice |-> VmGet(vm, emotion)]
       ELSE IF VmGet(vm, "neutral") # "" THEN [key |-> "neutral", voice |-> VmGet(vm, "neutral")]
       ELSE IF pref # None /\ VmGet(vm, pref) # "" THEN [key |-> pref, voice |-> VmGet(vm, pref)]
       ELSE IF VmGet(vm, "happy") # "" THEN [key |-> "happy", voice |-> VmGet(vm, "happy")]
       ELSE IF VmGet(vm, "angry") # "" THEN [key |-> "angry", voice |-> VmGet(vm, "angry")]
       ELSE VmFirst(vm)

\* get_speed_for_emotion(emotion), in tenths; sm maps emotions to a speed or 0 (absent)
get_speed_for_emotion(sm, emotion) ==
    IF sm[emotion] # 0 THEN sm[emotion]
    ELSE IF sm["neutral"] # 0 THEN sm["neutral"]
    ELSE 10

\* determine_emotion that leaves the pending emotion in place
determine_emotion_keep_pending(st, text) ==
    IF st.pending_emotion # None /\ st.pending_emotion \in EMOTIONS
    THEN [emotion |-> st.pending_emotion, st |-> st]
    ELSE [emotion |-> classify(text), st |-> st]

\* determine_emotion that writes the emotion into the session record at once
determine_emotion_recording(st, text) ==
    IF st.pending_emotion # None /\ st.pending_emotion \in EMOTIONS
    THEN [emotion |-> st.pending_emotion,
          st |-> [st EXCEPT !.pending_emotion = None, !.last_emotion = st.pending_emotion]]
    ELSE [emotion |-> classify(text), st |-> [st EXCEPT !.last_emotion = classify(text)]]

\* determine_emotion(session_state, text): the emotion and the session record after it
determine_emotion(st, text) ==
    IF st.pending_emotion # None /\ st.pending_emotion \in EMOTIONS
    THEN [emotion |-> st.pending_emotion, st |-> [st EXCEPT !.pending_emotion = None]]
    ELSE [emotion |-> classify(text), st |-> st]

\* message components
Plain(t) == [kind |-> "Plain", text |-> t, file |-> <<>>]
Record(f) == [kind |-> "Record", text |-> <<>>, file |-> f]
Comp(k) == [kind |-> k, text |-> <<>>, file |-> <<>>]

\* TTSResultBuilder.build(original_chain, audio_path, send_text, text_voice_enabled)
build(original_chain, audio_path, send_text, text_voice_enabled) ==
    LET keep(c) == c.kind \notin {"Plain", "Record"}
    IN (IF text_voice_enabled /\ Strip(send_text) # <<>> THEN <<Plain(send_text)>> ELSE <<>>)
       \o <<Record(audio_path)>>
       \o SelectSeq(original_chain, keep)

\* ------------------------------------------------------------------------
\* Bounds and input sets
\* ------------------------------------------------------------------------

\* replies handed to on_decorating_result in one behaviour
MaxReplies == 2
\* clock ticks after the start
MaxTicks == 2
\* time.time() at the start (later than any cooldown after the epoch)
StartTime == 10

\* reply tasks that may be in progress at the same time
Tasks == {1, 2}
\* the caller of synth outside the reply pipeline
Driver == 0
Callers == Tasks \cup {Driver}
Sessions == {"s1", "s2"}

\* tts/provider_siliconflow.py : max_retries default, never overridden by main.py
max_retries == 2
\* core/constants.py
AUDIO_MIN_VALID_SIZE == 100
\* main.py : tts_text[:50]
SIG_PREFIX_LEN == 50

\* sizes of the body of an audio response
ContentSizes == {0, 99, 100}

Resp(status, ctype, size) == [status |-> status, ctype |-> ctype, size |-> size]
NoResp == Resp(-1, "", 0)
\* a network-level exception (timeout, connection error)
NetException == Resp(0, "", 0)

\* everything the provider may answer to one request
ProviderAll ==
    {Resp(200, "audio/mpeg", n) : n \in ContentSizes}
      \cup {Resp(299, "application/octet-stream", 100), Resp(200, "application/json", 0)}
      \cup {Resp(st, "application/json", 0) : st \in {302, 404, 429, 500, 599}}
      \cup {NetException}

\* the answers used where several replies run concurrently
ProviderFew ==
    {Resp(200, "audio/mpeg", 100), Resp(404, "application/json", 0)}

\* the answers used where one reply is processed at a time
ProviderSome ==
    {Resp(200, "audio/mpeg", 100), Resp(200, "audio/mpeg", 99),
     Resp(500, "application/json", 0), Resp(404, "application/json", 0)}

VoiceFull == << <<"happy", "vh">>, <<"sad", "vs">>, <<"angry", "va">>, <<"neutral", "vn">> >>
VoiceHappyOnly == << <<"happy", "vh">>, <<"neutral", "">> >>
VoiceNone == << <<"happy", "">> >>

SpeedMapDefault == [e \in EMOTIONS |-> IF e = "happy" THEN 12 ELSE IF e = "neutral" THEN 10 ELSE 0]

Config(prob, limit, cd, mixed, refs, tvd, vm, disabled, api) ==
    [prob |-> prob, text_limit |-> limit, cooldown |-> cd, allow_mixed |-> mixed,
     show_references |-> refs, text_voice_default |-> tvd, voice_map |-> vm,
     speed_map |-> SpeedMapDefault, global_enable |-> TRUE,
     disabled_sessions |-> disabled, api_ok |-> api]

\* configurations of the concurrent pipeline
ConfigsPipeline ==
    {Config(100, 0, 0, FALSE, TRUE, FALSE, VoiceFull, {}, TRUE),
     Config(100, 0, 2, FALSE, TRUE, FALSE, VoiceFull, {}, TRUE)}

\* configurations of the one-reply-at-a-time pipeline
ConfigsReply ==
    {Config(100, 0, 0, FALSE, TRUE, FALSE, VoiceFull, {}, TRUE),
     Config(100, 0, 0, TRUE, FALSE, TRUE, VoiceFull, {"s2"}, TRUE),
     Config(50, 6, 2, FALSE, TRUE, TRUE, VoiceHappyOnly, {}, TRUE),
     Config(100, 0, 0, FALSE, TRUE, FALSE, VoiceNone, {}, TRUE),
     Config(100, 0, 0, FALSE, TRUE, FALSE, VoiceFull, {}, FALSE)}

Marker(e) == <<"[", "T", ":", e, "]">>
\* a marker written around a text that already holds one
Nest(e, inner) == <<"[", "T", ":">> \o inner \o <<e, "]">>

TextsPipeline ==
    {<<"w">>, <<"long", "w">>, <<"long", "sad">>}

TextsReply ==
    {<<"w">>,
     Marker("happy") \o <<" ", "w">>,
     <<"zw">> \o Marker("sad") \o Marker("happy") \o <<"w", " ", "w">> \o Marker("sad"),
     Nest("happy", Marker("sad")) \o <<" ", "w">>,
     Nest("happy", Nest("happy", Marker("happy"))) \o <<" ", "w">>,
     <<"[", "T", ":", "url", " ", "happy", "]", " ", "w">>,
     <<"url">>,
     <<"w", " ", "code", " ", "sad">>,
     Marker("sad"),
     <<"long", "w">>}

ChainShapes(t) ==
    {<<Plain(t)>>, <<Plain(t), Comp("Image")>>, <<Comp("Video"), Plain(t)>>}

Reply(chain, llm) == [chain |-> chain, is_llm |-> llm]

RepliesPipeline ==
    {Reply(<<Plain(t)>>, TRUE) : t \in TextsPipeline}

RepliesReply ==
    {Reply(<<Plain(t)>>, TRUE) : t \in TextsReply}
      \cup {Reply(c, TRUE) : c \in ChainShapes(Marker("happy") \o <<" ", "w">>)}
      \cup {Reply(<<Plain(<<"w">>)>>, FALSE),
            Reply(<<Plain(<<"[", "T", ":">>), Plain(<<"happy", "]", "w">>)>>, TRUE)}

\* values random.random() may yield, in percent
Rolls == {0, 50, 99}
\* the draw used where prob is 100 and every draw passes
RollsPipeline == {50}

\* ------------------------------------------------------------------------
\* State
\* ------------------------------------------------------------------------

VARIABLES
    now,          \* time.time()
    cfg,          \* the configuration in force
    received,     \* number of replies handed over so far
    sessions,     \* TTSEmotionRouter._session_state
    inflight,     \* TTSEmotionRouter._inflight_sigs
    task,         \* one record per reply task (one run of on_decorating_result)
    call,         \* one record per caller of SiliconFlowTTS.synth
    files,        \* the audio files in TEMP_DIR: cache key -> size in bytes
    prev,         \* summary of the Driver's previous synth call
    lastSuccess,  \* per session, the time its last synthesis succeeded (-1: never)
    probe         \* inputs and result of the last direct check_all application

vars == <<now, cfg, received, sessions, inflight, task, call, files, prev,
          lastSuccess, probe>>

\* core/session.py : SessionState()
NewSessionState ==
    [last_ts |-> 0, pending_emotion |-> None, last_emotion |-> None,
     last_voice |-> None, text_voice_enabled |-> None, assistant_text |-> <<>>]

NoKey == <<>>
NoSig == [sid |-> None, toks |-> <<>>, cut |-> 0]
NoGate == [passed |-> FALSE, reason |-> "unchecked", remaining |-> 0, draws |-> 0]

IdleCall == [pc |-> "idle", key |-> NoKey, attempt |-> 0, backoff |-> 10,
             last |-> NoResp, result |-> NoKey, why |-> "", size |-> 0]

IdleTask == [pc |-> "idle", sid |-> None, is_llm |-> FALSE, orig |-> <<>>,
             chain |-> <<>>, send_text |-> <<>>, tts_text |-> <<>>, sig |-> NoSig,
             gate |-> NoGate, outcome |-> "", emotion |-> None, voice |-> None,
             voice_uri |-> "", speed |-> 0, seq |-> 0, llm_raw |-> <<>>,
             fault |-> "none"]

NoPrev == [key |-> NoKey, result |-> NoKey, requests |-> 0, why |-> "", last |-> NoResp]

NoProbe == [c |-> Config(100, 0, 0, FALSE, TRUE, FALSE, VoiceFull, {}, TRUE),
            len |-> 0, st |-> NewSessionState, has_non_plain |-> FALSE, tnow |-> 0,
            roll |-> 0,
            out |-> [passed |-> FALSE, reason |-> "unchecked", remaining |-> 0, draws |-> 0]]

\* ------------------------------------------------------------------------
\* tts/provider_siliconflow.py : SiliconFlowTTS.synth
\* ------------------------------------------------------------------------

FilePut(f, k, v) == [x \in (DOMAIN f) \cup {k} |-> IF x = k THEN v ELSE f[x]]
FileDel(f, k) == [x \in (DOMAIN f) \ {k} |-> f[x]]
FileExists(f, k) == k \in DOMAIN f

\* the cache key: text, voice, model, speed, format, gain, sample rate
CacheKey(text, voice, eff_speed) ==
    <<text, voice, "gpt-tts-pro", eff_speed, "mp3", 5, 44100>>

\* a cache check that asks for more than the minimum valid size
CacheHitLarge(f, k) == FileExists(f, k) /\ f[k] > AUDIO_MIN_VALID_SIZE

\* out_path.exists() and out_path.stat().st_size > 0
CacheHit(f, k) == FileExists(f, k) /\ f[k] > 0

\* _is_audio_response(content_type)
IsAudioResponse(ct) == ct \in {"audio/mpeg", "application/octet-stream"}

\* a retry test that takes every status from 400 on
IsRetryStatusAll4xx(status) == status >= 400

\* r.status in (429,) or 500 <= r.status < 600
IsRetryStatus(status) == status = 429 \/ (500 <= status /\ status < 600)

\* attempt <= self.max_retries
RetryAllowed(attempt) == attempt <= max_retries

\* the last value of range(1, self.max_retries + 2)
LastAttempt == max_retries + 1

\* utils/audio.py : _validate_audio_file_sync
ValidAudioFile(f, k) ==
    FileExists(f, k) /\ f[k] # 0 /\ ~(f[k] < AUDIO_MIN_VALID_SIZE)

\* the failure cleanup: a zero-byte file is unlinked
CleanupFile(f, k) == IF FileExists(f, k) /\ f[k] = 0 THEN FileDel(f, k) ELSE f

Min(a, b) == IF a < b THEN a ELSE b

\* synth up to its first suspension: missing api config, cache hit, or first request
SynthStart(f, key) ==
    IF ~cfg.api_ok
    THEN [IdleCall EXCEPT !.pc = "returned", !.key = key, !.why = "noapi"]
    ELSE IF CacheHit(f, key)
    THEN [IdleCall EXCEPT !.pc = "returned", !.key = key, !.result = key, !.why = "hit"]
    ELSE [IdleCall EXCEPT !.pc = "post", !.key = key, !.attempt = 1]

\* the retry loop with one retry more than the budget
AfterResponseExtraRetry(cl, r) ==
    LET retry == IF cl.attempt <= max_retries + 1
                 THEN [cl EXCEPT !.pc = "post", !.attempt = cl.attempt + 1,
                                 !.backoff = Min(cl.backoff * 2, 80), !.last = r]
                 ELSE [cl EXCEPT !.pc = "cleanup", !.why = "exhausted", !.last = r]
    IN IF r = NetException THEN retry
       ELSE IF 200 <= r.status /\ r.status < 300
       THEN IF ~IsAudioResponse(r.ctype)
            THEN [cl EXCEPT !.pc = "cleanup", !.why = "nonaudio", !.last = r]
            ELSE [cl EXCEPT !.pc = "write", !.size = r.size, !.last = r]
       ELSE IF IsRetryStatus(r.status) THEN retry
       ELSE [cl EXCEPT !.pc = "cleanup", !.why = "permanent", !.last = r]

\* the call record after the answer r to the request in flight
AfterResponse(cl, r) ==
    LET retry == IF RetryAllowed(cl.attempt) /\ cl.attempt + 1 <= LastAttempt
                 THEN [cl EXCEPT !.pc = "post", !.attempt = cl.attempt + 1,
                                 !.backoff = Min(cl.backoff * 2, 80), !.last = r]
                 ELSE [cl EXCEPT !.pc = "cleanup", !.why = "exhausted", !.last = r]
    IN IF r = NetException THEN retry
       ELSE IF 200 <= r.status /\ r.status < 300
       THEN IF ~IsAudioResponse(r.ctype)
            THEN [cl EXCEPT !.pc = "cleanup", !.why = "nonaudio", !.last = r]
            ELSE [cl EXCEPT !.pc = "write", !.size = r.size, !.last = r]
       ELSE IF IsRetryStatus(r.status) THEN retry
       ELSE [cl EXCEPT !.pc = "cleanup", !.why = "permanent", !.last = r]

\* the call record after validate_audio_file(out_path) on the written file
AfterValidate(cl, f) ==
    IF ValidAudioFile(f, cl.key)
    THEN [cl EXCEPT !.pc = "returned", !.result = cl.key, !.why = "ok"]
    ELSE [cl EXCEPT !.pc = "cleanup", !.why = "invalid"]

\* ------------------------------------------------------------------------
\* main.py : TTSEmotionRouter.on_decorating_result
\* ------------------------------------------------------------------------

\* a session switch that takes every session as enabled
IsSessionEnabledAlways(sid) == TRUE

\* _is_session_enabled(sid)
IsSessionEnabled(sid) ==
    IF cfg.global_enable THEN sid \notin cfg.disabled_sessions ELSE FALSE

\* _get_session_state(sid): setdefault
GetSessionState(ss, sid) ==
    IF sid \in DOMAIN ss THEN ss
    ELSE [x \in (DOMAIN ss) \cup {sid} |-> IF x = sid THEN NewSessionState ELSE ss[x]]

RECURSIVE StripChain(_)
\* step 3: every Plain component is normalised and stripped of markers
StripChain(ch) ==
    IF ch = <<>> THEN <<>>
    ELSE LET c == ch[1]
             t == strip_all_visible_markers(strip_head_many(normalize_text(c.text)).text)
         IN IF c.kind = "Plain" /\ c.text # <<>>
            THEN (IF t # <<>> THEN <<Plain(t)>> ELSE <<>>) \o StripChain(Tail(ch))
            ELSE <<c>> \o StripChain(Tail(ch))

RECURSIVE JoinParts(_)
\* step 4: " ".join of the stripped texts of the Plain components
JoinParts(ch) ==
    IF ch = <<>> THEN <<>>
    ELSE LET c == ch[1]
             rest == JoinParts(Tail(ch))
         IN IF c.kind = "Plain" /\ Strip(c.text) # <<>>
            THEN IF rest = <<>> THEN Strip(c.text) ELSE Strip(c.text) \o <<" ">> \o rest
            ELSE rest

HasTextParts(ch) == \E k \in 1..Len(ch) : ch[k].kind = "Plain" /\ Strip(ch[k].text) # <<>>

ALLOWED_COMPONENTS == {"Plain", "At", "Reply", "Image", "Face"}

HasNonPlain(ch) == \E k \in 1..Len(ch) : ch[k].kind \notin ALLOWED_COMPONENTS

NonPlainOf(ch) == LET np(c) == c.kind # "Plain" IN SelectSeq(ch, np)

RECURSIVE TakeChars(_, _)
\* text[:n]: the whole tokens taken and the characters taken of a cut one
TakeChars(s, n) ==
    IF s = <<>> \/ n = 0 THEN [toks |-> <<>>, cut |-> 0]
    ELSE IF TokWidth(s[1]) <= n
         THEN LET r == TakeChars(Tail(s), n - TokWidth(s[1]))
              IN [toks |-> <<s[1]>> \o r.toks, cut |-> r.cut]
    ELSE [toks |-> <<s[1]>>, cut |-> n]

\* sig = f"{sid}:{hash(tts_text[:50])}"
Signature(sid, tts_text) ==
    LET pre == TakeChars(tts_text, SIG_PREFIX_LEN)
    IN [sid |-> sid, toks |-> pre.toks, cut |-> pre.cut]

\* a duplicate check that never finds the signature
IsDuplicateNever(infl, sig) == FALSE

\* the duplicate check of step 8
IsDuplicate(infl, sig) == sig \in infl

\* a finally clause that leaves the signature in the set
DiscardNothing(infl, sig) == infl

\* the finally clause: _inflight_sigs.discard(sig)
Discard(infl, sig) == infl \ {sig}

\* a fallback that emits nothing
FallbackChainEmpty(send_text) == <<>>

\* the fallback chain when no audio was produced
FallbackChain(send_text) == <<Plain(send_text)>>

\* steps 3 to 6 of the handler, which depend on the reply alone: the stripped
\* chain, the text to speak and the text to send
PrepareReply(r, show_references) ==
    LET chain1 == StripChain(r.chain)
        text == strip_head_many(normalize_text(JoinParts(chain1))).text
        processed == process_text(text)
    IN [chain |-> r.chain, is_llm |-> r.is_llm, chain1 |-> chain1,
        tts_text |-> processed.speak,
        send_text |-> BuildSendText(processed, show_references),
        refs |-> show_references]

PreparedPipeline == {PrepareReply(r, b) : r \in RepliesPipeline, b \in BOOLEAN}

PreparedReply == {PrepareReply(r, b) : r \in RepliesReply, b \in BOOLEAN}

\* the handler from its entry to its first suspension (or to its return);
\* yields the task record, the session store, the in-flight set and the synth call
Decorate(r, sid, roll) ==
    LET base == [IdleTask EXCEPT !.sid = sid, !.is_llm = r.is_llm, !.orig = r.chain,
                                 !.chain = r.chain, !.pc = "done", !.seq = received + 1]
        keep(t) == [t |-> t, sess |-> sessions, infl |-> inflight, cl |-> IdleCall]
        chain1 == r.chain1
        tts_text == r.tts_text
        send_text == r.send_text
        t5 == [base EXCEPT !.chain = chain1, !.tts_text = tts_text, !.send_text = send_text]
        sess7 == GetSessionState(sessions, sid)
        st == sess7[sid]
        res == check_all(cfg, CharLen(tts_text), st, HasNonPlain(chain1), now, roll)
        t7 == [t5 EXCEPT !.gate = res]
        sig == Signature(sid, tts_text)
        de == determine_emotion(st, tts_text)
        sess9 == [sess7 EXCEPT ![sid] = de.st]
        pv == pick_voice_for_emotion(cfg.voice_map, de.emotion)
        speed == get_speed_for_emotion(cfg.speed_map, de.emotion)
        t9 == [t7 EXCEPT !.sig = sig, !.emotion = de.emotion, !.voice = pv.key,
                         !.voice_uri = pv.voice, !.speed = speed]
        cl == SynthStart(files, CacheKey(tts_text, pv.voice, speed))
    IN IF ~r.is_llm \/ r.chain = <<>> THEN keep([base EXCEPT !.outcome = "not_llm"])
       ELSE IF ~IsSessionEnabled(sid) THEN keep([base EXCEPT !.outcome = "disabled"])
       ELSE IF ~HasTextParts(chain1)
            THEN keep([base EXCEPT !.chain = chain1, !.outcome = "empty"])
       ELSE IF Strip(tts_text) = <<>>
            THEN keep([t5 EXCEPT !.chain = <<Plain(send_text)>>, !.outcome = "empty"])
       ELSE IF ~res.passed
            THEN [t |-> [t7 EXCEPT !.outcome = "rejected",
                                   !.chain = IF res.reason = "mixed"
                                             THEN <<Plain(send_text)>> \o NonPlainOf(chain1)
                                             ELSE chain1],
                  sess |-> sess7, infl |-> inflight, cl |-> IdleCall]
       ELSE IF IsDuplicate(inflight, sig)
            THEN [t |-> [t7 EXCEPT !.outcome = "duplicate", !.sig = sig],
                  sess |-> sess7, infl |-> inflight, cl |-> IdleCall]
       ELSE IF pv.voice = ""
            THEN [t |-> [t9 EXCEPT !.outcome = "no_voice", !.chain = FallbackChain(send_text)],
                  sess |-> sess9, infl |-> Discard(inflight \cup {sig}, sig), cl |-> IdleCall]
       ELSE IF cl.pc = "returned" /\ cl.result = NoKey
            THEN [t |-> [t9 EXCEPT !.outcome = "failed", !.chain = FallbackChain(send_text)],
                  sess |-> sess9, infl |-> Discard(inflight \cup {sig}, sig), cl |-> cl]
       ELSE [t |-> [t9 EXCEPT !.pc = IF cl.pc = "returned" THEN "gen_validate" ELSE "synth"],
             sess |-> sess9, infl |-> inflight \cup {sig}, cl |-> cl]

\* a reply is handed to on_decorating_result, which runs to its first suspension
DecorateStart(i, r, sid, roll) ==
    /\ task[i].pc \in {"idle", "done"}
    \* the slot index carries no meaning: a new task takes the lowest free slot
    /\ \A j \in Tasks : j < i => task[j].pc \notin {"idle", "done"}
    /\ received < MaxReplies
    /\ r.refs = cfg.show_references
    /\ LET d == Decorate(r, sid, roll)
       IN /\ task' = [task EXCEPT ![i] = d.t]
          /\ sessions' = d.sess
          /\ inflight' = d.infl
          /\ call' = [call EXCEPT ![i] = d.cl]
    /\ received' = received + 1
    /\ UNCHANGED <<now, cfg, files, prev, lastSuccess, probe>>

\* what a reply task does when its synth call has ended with the record cl
TaskAfterSynth(i, cl) ==
    IF cl.pc # "returned"
    THEN UNCHANGED <<task, inflight>>
    ELSE IF cl.result = NoKey
    THEN /\ task' = [task EXCEPT ![i].pc = "done", ![i].outcome = "failed",
                                 ![i].chain = FallbackChain(task[i].send_text)]
         /\ inflight' = Discard(inflight, task[i].sig)
    ELSE /\ task' = [task EXCEPT ![i].pc = "gen_validate"]
         /\ UNCHANGED inflight

AfterSynth(c, cl) ==
    IF c \in Tasks THEN TaskAfterSynth(c, cl) ELSE UNCHANGED <<task, inflight>>

\* the provider answers the request in flight (or the request raises)
SynthResponse(c, r) ==
    /\ call[c].pc = "post"
    /\ call' = [call EXCEPT ![c] = AfterResponse(call[c], r)]
    /\ UNCHANGED <<now, cfg, received, sessions, inflight, task,
                   files, prev, lastSuccess, probe>>

\* _write_file: open(out_path, "wb") truncates the file
SynthWriteOpen(c) ==
    /\ call[c].pc = "write"
    /\ files' = FilePut(files, call[c].key, 0)
    /\ call' = [call EXCEPT ![c].pc = "writing"]
    /\ UNCHANGED <<now, cfg, received, sessions, inflight, task,
                   prev, lastSuccess, probe>>

\* _write_file: the content is written and the file closed
SynthWriteDone(c) ==
    /\ call[c].pc = "writing"
    /\ files' = FilePut(files, call[c].key, call[c].size)
    /\ call' = [call EXCEPT ![c].pc = "validate"]
    /\ UNCHANGED <<now, cfg, received, sessions, inflight, task,
                   prev, lastSuccess, probe>>

\* validate_audio_file(out_path, expected_format) inside synth
SynthValidate(c) ==
    /\ call[c].pc = "validate"
    /\ LET cl == AfterValidate(call[c], files)
       IN /\ call' = [call EXCEPT ![c] = cl]
          /\ AfterSynth(c, cl)
    /\ UNCHANGED <<now, cfg, received, sessions, files, prev,
                   lastSuccess, probe>>

\* the failure cleanup, after which synth returns None
SynthCleanup(c) ==
    /\ call[c].pc = "cleanup"
    /\ files' = CleanupFile(files, call[c].key)
    /\ LET cl == [call[c] EXCEPT !.pc = "returned", !.result = NoKey]
       IN /\ call' = [call EXCEPT ![c] = cl]
          /\ AfterSynth(c, cl)
    /\ UNCHANGED <<now, cfg, received, sessions, prev,
                   lastSuccess, probe>>

\* _update_session_state(st, result)
UpdateSessionState(st, t, tnow) ==
    [st EXCEPT !.last_ts = tnow, !.last_emotion = t.emotion, !.last_voice = t.voice]

\* generate_audio validates the returned path; then process and the handler finish
GenValidate(i) ==
    /\ task[i].pc = "gen_validate"
    /\ LET t == task[i]
           st == sessions[t.sid]
           tv == IF st.text_voice_enabled # None THEN st.text_voice_enabled = "true"
                 ELSE cfg.text_voice_default
           st1 == UpdateSessionState(st, t, now)
           st2 == IF Strip(t.send_text) # <<>>
                  THEN [st1 EXCEPT !.assistant_text = Strip(t.send_text)] ELSE st1
       IN IF ValidAudioFile(files, call[i].result)
          THEN /\ sessions' = [sessions EXCEPT ![t.sid] = st2]
               /\ lastSuccess' = [lastSuccess EXCEPT ![t.sid] = now]
               /\ task' = [task EXCEPT ![i].pc = "done", ![i].outcome = "success",
                              ![i].chain = build(t.chain, call[i].result, t.send_text, tv)]
          ELSE /\ task' = [task EXCEPT ![i].pc = "done", ![i].outcome = "failed",
                              ![i].chain = FallbackChain(t.send_text)]
               /\ UNCHANGED <<sessions, lastSuccess>>
    /\ inflight' = Discard(inflight, task[i].sig)
    /\ UNCHANGED <<now, cfg, received, call, files, prev, probe>>

\* the task is cancelled while suspended: the exception leaves the handler
\* through its finally clause
Raise(i) ==
    /\ task[i].pc \in {"synth", "gen_validate"}
    /\ call[i].pc # "writing"
    /\ task' = [task EXCEPT ![i].pc = "done", ![i].outcome = "raised"]
    /\ call' = [call EXCEPT ![i].pc = "aborted"]
    /\ inflight' = Discard(inflight, task[i].sig)
    /\ UNCHANGED <<now, cfg, received, sessions, files, prev,
                   lastSuccess, probe>>

\* time passes
Tick ==
    /\ now < StartTime + MaxTicks
    /\ now' = now + 1
    /\ UNCHANGED <<cfg, received, sessions, inflight, task, call,
                   files, prev, lastSuccess, probe>>

\* ------------------------------------------------------------------------
\* The reply pipeline with concurrent replies
\* ------------------------------------------------------------------------

InitCommon ==
    /\ now = StartTime
    /\ received = 0
    /\ sessions = [x \in {} |-> NewSessionState]
    /\ inflight = {}
    /\ task = [i \in Tasks |-> IdleTask]
    /\ call = [c \in Callers |-> IdleCall]
    /\ files = [x \in {} |-> 0]
    /\ prev = NoPrev
    /\ lastSuccess = [x \in Sessions |-> -1]
    /\ probe = NoProbe

Init ==
    /\ InitCommon
    /\ cfg \in ConfigsPipeline

Next ==
    \/ \E i \in Tasks, r \in PreparedPipeline, sid \in Sessions, roll \in RollsPipeline :
          DecorateStart(i, r, sid, roll)
    \/ \E i \in Tasks, r \in ProviderFew : SynthResponse(i, r)
    \/ \E i \in Tasks : SynthWriteOpen(i)
    \/ \E i \in Tasks : SynthWriteDone(i)
    \/ \E i \in Tasks : SynthValidate(i)
    \/ \E i \in Tasks : SynthCleanup(i)
    \/ \E i \in Tasks : GenValidate(i)
    \/ \E i \in Tasks : Raise(i)
    \/ Tick

Spec == Init /\ [][Next]_vars

\* ------------------------------------------------------------------------
\* The reply pipeline with one reply at a time, over many replies and
\* configurations
\* ------------------------------------------------------------------------

ReplyInit ==
    /\ InitCommon
    /\ cfg \in ConfigsReply

ReplyNext ==
    \/ \E r \in PreparedReply, sid \in Sessions, roll \in Rolls :
          DecorateStart(1, r, sid, roll)
    \/ \E r \in ProviderSome : SynthResponse(1, r)
    \/ SynthWriteOpen(1)
    \/ SynthWriteDone(1)
    \/ SynthValidate(1)
    \/ SynthCleanup(1)
    \/ GenValidate(1)
    \/ Raise(1)

ReplySpec == ReplyInit /\ [][ReplyNext]_vars

\* ------------------------------------------------------------------------
\* SiliconFlowTTS.synth called directly, one call after the other
\* ------------------------------------------------------------------------

\* (text, voice, speed) of the direct calls
DriverArgs ==
    {<< <<"w">>, "vh", 10 >>, << <<"w">>, "vh", 12 >>, << <<"sad">>, "vn", 10 >>}

\* the caller starts the next call once the previous one has returned
DriverCall(a) ==
    /\ call[Driver].pc \in {"idle", "returned"}
    /\ prev' = IF call[Driver].pc = "returned"
               THEN [key |-> call[Driver].key, result |-> call[Driver].result,
                     requests |-> call[Driver].attempt, why |-> call[Driver].why,
                     last |-> call[Driver].last]
               ELSE prev
    /\ call' = [call EXCEPT ![Driver] = SynthStart(files, CacheKey(a[1], a[2], a[3]))]
    /\ UNCHANGED <<now, cfg, received, sessions, inflight, task,
                   files, lastSuccess, probe>>

SynthInit ==
    /\ InitCommon
    /\ cfg \in {Config(100, 0, 0, FALSE, TRUE, FALSE, VoiceFull, {}, TRUE),
                Config(100, 0, 0, FALSE, TRUE, FALSE, VoiceFull, {}, FALSE)}

SynthStep ==
    \/ \E r \in ProviderAll : SynthResponse(Driver, r)
    \/ SynthWriteOpen(Driver)
    \/ SynthWriteDone(Driver)
    \/ SynthValidate(Driver)
    \/ SynthCleanup(Driver)

SynthNext ==
    \/ \E a \in DriverArgs : DriverCall(a)
    \/ SynthStep

SynthSpec == SynthInit /\ [][SynthNext]_vars

\* every request ends within the client timeout and every file operation
\* handed to a thread completes
FairSynthSpec == SynthSpec /\ WF_vars(SynthStep)

\* ------------------------------------------------------------------------
\* check_all applied directly to inputs drawn from bounded sets
\* ------------------------------------------------------------------------

ProbeConfigs ==
    {Config(p, l, cd, m, TRUE, FALSE, VoiceFull, {}, TRUE) :
        p \in {0, 50, 100}, l \in {0, 6}, cd \in {-1, 0, 2}, m \in BOOLEAN}

ProbeStates ==
    {[NewSessionState EXCEPT !.last_ts = ts, !.text_voice_enabled = o] :
        ts \in {0, StartTime - 1, StartTime}, o \in {None, "true", "false"}}

CheckAllProbe(c, len, st, np, tnow, roll) ==
    /\ probe = NoProbe
    /\ probe' = [c |-> c, len |-> len, st |-> st, has_non_plain |-> np, tnow |-> tnow,
                 roll |-> roll, out |-> check_all(c, len, st, np, tnow, roll)]
    /\ UNCHANGED <<now, cfg, received, sessions, inflight, task,
                   call, files, prev, lastSuccess>>

GateInit ==
    /\ InitCommon
    /\ cfg \in ConfigsPipeline

GateNext ==
    \E c \in ProbeConfigs, len \in {3, 6, 7}, st \in ProbeStates, np \in BOOLEAN,
       tnow \in {StartTime, StartTime + 1}, roll \in Rolls :
        CheckAllProbe(c, len, st, np, tnow, roll)

GateSpec == GateInit /\ [][GateNext]_vars

\* ------------------------------------------------------------------------
\* main.py : on_llm_response followed by on_decorating_result
\* ------------------------------------------------------------------------

\* the text bodies of the model replies
TextBodies == {<<"w">>, <<"sad">>}

\* completion texts of the model: a canonical marker and a body, or a body alone
TextsLlm ==
    {Marker(e) \o <<" ">> \o b : e \in EmotionToks, b \in TextBodies} \cup {<<"w">>}

\* gate always passes, every emotion has a voice, text+voice on or off
ConfigsLlm ==
    {Config(100, 0, 0, FALSE, TRUE, tv, VoiceFull, {}, TRUE) : tv \in BOOLEAN}

\* the answers with their head parsed once: strip_head_many(normalize_text(raw))
LlmAnswers ==
    {[raw |-> raw, head |-> strip_head_many(normalize_text(raw))] : raw \in TextsLlm}

\* steps 3 to 6 of on_decorating_result for a chain of one Plain component
\* holding the text as the model wrote it or as on_llm_response left it
PreparedLlm ==
    {[text |-> text, r |-> PrepareReply(Reply(<<Plain(text)>>, TRUE), TRUE)] :
        text \in {a.raw : a \in LlmAnswers} \cup {a.head.text : a \in LlmAnswers}}

\* on_llm_response that does not record the parsed label
on_llm_response_no_pending(st, raw, h) ==
    LET st2 == IF Strip(h.text) # <<>>
               THEN [st EXCEPT !.assistant_text = Strip(h.text)] ELSE st
    IN IF Strip(raw) = <<>> THEN [st |-> st, cleaned |-> raw, label |-> None]
       ELSE [st |-> st2, cleaned |-> h.text, label |-> None]

\* on_llm_response on completion_text raw (no result_chain), h being
\* strip_head_many(normalize_text(raw)): the session record after it, the
\* cleaned completion text and the parsed label
on_llm_response(st, raw, h) ==
    LET label == IF h.label \in EMOTIONS THEN h.label ELSE None
        st1 == IF label \in EMOTIONS THEN [st EXCEPT !.pending_emotion = label] ELSE st
        st2 == IF Strip(h.text) # <<>>
               THEN [st1 EXCEPT !.assistant_text = Strip(h.text)] ELSE st1
    IN IF Strip(raw) = <<>> THEN [st |-> st, cleaned |-> raw, label |-> None]
       ELSE [st |-> st2, cleaned |-> h.text, label |-> label]

\* the model answers in session sid; the previous answer has been handed on
OnLlmResponse(sid, a) ==
    /\ IF probe = NoProbe THEN TRUE ELSE probe.used
    /\ received < MaxReplies
    /\ LET ss == GetSessionState(sessions, sid)
           o == on_llm_response(ss[sid], a.raw, a.head)
       IN /\ sessions' = [ss EXCEPT ![sid] = o.st]
          /\ probe' = [sid |-> sid, raw |-> a.raw, cleaned |-> o.cleaned,
                       label |-> o.label, used |-> FALSE]
    /\ UNCHANGED <<now, cfg, received, inflight, task, call, files, prev, lastSuccess>>

\* the answer is handed to on_decorating_result as one Plain component holding
\* the completion text, as the model wrote it or as on_llm_response left it
DecorateLlm(i, p, from_raw, roll) ==
    /\ probe # NoProbe /\ ~probe.used
    /\ p.text = IF from_raw THEN probe.raw ELSE probe.cleaned
    /\ task[i].pc \in {"idle", "done"}
    /\ \A j \in Tasks : j < i => task[j].pc \notin {"idle", "done"}
    /\ received < MaxReplies
    /\ LET d == Decorate(p.r, probe.sid, roll)
       IN /\ task' = [task EXCEPT ![i] = [d.t EXCEPT !.llm_raw = probe.raw]]
          /\ sessions' = d.sess
          /\ inflight' = d.infl
          /\ call' = [call EXCEPT ![i] = d.cl]
    /\ received' = received + 1
    /\ probe' = [probe EXCEPT !.used = TRUE]
    /\ UNCHANGED <<now, cfg, files, prev, lastSuccess>>

LlmInit ==
    /\ InitCommon
    /\ cfg \in ConfigsLlm

LlmNext ==
    \/ \E sid \in Sessions, a \in LlmAnswers : OnLlmResponse(sid, a)
    \/ \E i \in Tasks, p \in PreparedLlm, from_raw \in BOOLEAN,
          roll \in RollsPipeline :
          DecorateLlm(i, p, from_raw, roll)
    \/ \E i \in Tasks, r \in ProviderFew : SynthResponse(i, r)
    \/ \E i \in Tasks : SynthWriteOpen(i)
    \/ \E i \in Tasks : SynthWriteDone(i)
    \/ \E i \in Tasks : SynthValidate(i)
    \/ \E i \in Tasks : SynthCleanup(i)
    \/ \E i \in Tasks : GenValidate(i)

LlmSpec == LlmInit /\ [][LlmNext]_vars

\* ------------------------------------------------------------------------
\* main.py : _cleanup_stale_sessions and the writers of the session store
\* ------------------------------------------------------------------------

\* SESSION_MAX_IDLE_TIME (86400 s in main.py), in clock ticks
SESSION_MAX_IDLE_TIME == 1
\* SESSION_MAX_COUNT (10000 in main.py), scaled to the sessions below
SESSION_MAX_COUNT == 1

\* session ids of the store under the sweep
SweepSessions == {1, 2, 3}

\* sessions whose last_ts is older than the idle threshold
StaleSessions(ss, tnow) ==
    {sid \in DOMAIN ss : tnow - ss[sid].last_ts > SESSION_MAX_IDLE_TIME}

\* an excess count that keeps one session too many
ExcessCountShort(n) ==
    IF n > SESSION_MAX_COUNT THEN n - SESSION_MAX_COUNT - 1 ELSE 0

\* excess_count: sessions to evict for the cap, 0 when the cap is respected
ExcessCount(n) ==
    IF n > SESSION_MAX_COUNT THEN n - SESSION_MAX_COUNT ELSE 0

\* sorted(items, key=last_ts)[:excess_count]: the store keeps no insertion
\* order here, so sessions with equal last_ts may come in either order
ExcessChoices(ss) ==
    {E \in SUBSET (DOMAIN ss) :
        /\ Cardinality(E) = ExcessCount(Cardinality(DOMAIN ss))
        /\ \A e \in E, k \in (DOMAIN ss) \ E : ss[e].last_ts <= ss[k].last_ts}

\* the store after _cleanup_stale_sessions with E the head of the sorted list
CleanupStaleSessions(ss, tnow, E) ==
    [sid \in (DOMAIN ss) \ (StaleSessions(ss, tnow) \cup E) |-> ss[sid]]

\* bookkeeping of the sweep loop: its phase, the time each stored session was
\* last written, the sessions the last sweep evicted for the cap alone
SweepBook(phase, touched, capped) ==
    [phase |-> phase, touched |-> touched, capped |-> capped]

Touch(sid) ==
    [x \in (DOMAIN probe.touched) \cup {sid} |-> IF x = sid THEN now ELSE probe.touched[x]]

\* _get_session_state(sid) creates the record of a session not yet stored
SessionCreate(sid) ==
    /\ sid \notin DOMAIN sessions
    /\ sessions' = GetSessionState(sessions, sid)
    /\ probe' = SweepBook("run", Touch(sid), {})
    /\ UNCHANGED <<now, cfg, received, inflight, task, call, files, prev, lastSuccess>>

\* on_llm_response writes the pending emotion of the session, created if absent
SessionSetPending(sid) ==
    /\ GetSessionState(sessions, sid)[sid].pending_emotion = None
    /\ sessions' = [GetSessionState(sessions, sid) EXCEPT ![sid].pending_emotion = "happy"]
    /\ probe' = SweepBook("run", Touch(sid), {})
    /\ UNCHANGED <<now, cfg, received, inflight, task, call, files, prev, lastSuccess>>

\* cmd_tts_text_voice_on writes the override of the session, created if absent
SessionSetOverride(sid) ==
    /\ GetSessionState(sessions, sid)[sid].text_voice_enabled = None
    /\ sessions' = [GetSessionState(sessions, sid) EXCEPT ![sid].text_voice_enabled = "true"]
    /\ probe' = SweepBook("run", Touch(sid), {})
    /\ UNCHANGED <<now, cfg, received, inflight, task, call, files, prev, lastSuccess>>

\* a synthesis of a stored session completes: _update_session_state
SessionSynthesized(sid) ==
    /\ sid \in DOMAIN sessions
    /\ sessions[sid].last_ts < now
    /\ sessions' = [sessions EXCEPT
                      ![sid] = UpdateSessionState(@, [emotion |-> "neutral", voice |-> "neutral"], now)]
    /\ probe' = SweepBook("run", Touch(sid), {})
    /\ UNCHANGED <<now, cfg, received, inflight, task, call, files, prev, lastSuccess>>

\* asyncio.sleep(SESSION_CLEANUP_INTERVAL) of the sweep loop ends
SweepSleep ==
    /\ now < StartTime + MaxTicks
    /\ now' = now + 1
    /\ probe' = SweepBook("due", probe.touched, {})
    /\ UNCHANGED <<cfg, received, sessions, inflight, task, call, files, prev, lastSuccess>>

\* _cleanup_stale_sessions: no await inside, one atomic step
SessionSweep(E) ==
    /\ probe.phase = "due"
    /\ sessions' = CleanupStaleSessions(sessions, now, E)
    /\ probe' = SweepBook("swept",
                          [x \in DOMAIN sessions' |-> probe.touched[x]],
                          E \ StaleSessions(sessions, now))
    /\ UNCHANGED <<now, cfg, received, inflight, task, call, files, prev, lastSuccess>>

SweepInit ==
    /\ now = StartTime
    /\ cfg \in ConfigsPipeline
    /\ received = 0
    /\ sessions = [x \in {} |-> NewSessionState]
    /\ inflight = {}
    /\ task = [i \in Tasks |-> IdleTask]
    /\ call = [c \in Callers |-> IdleCall]
    /\ files = [x \in {} |-> 0]
    /\ prev = NoPrev
    /\ lastSuccess = [x \in Sessions |-> -1]
    /\ probe = SweepBook("run", [x \in {} |-> 0], {})

SweepNext ==
    \/ \E sid \in SweepSessions : SessionCreate(sid)
    \/ \E sid \in SweepSessions : SessionSetPending(sid)
    \/ \E sid \in SweepSessions : SessionSetOverride(sid)
    \/ \E sid \in SweepSessions : SessionSynthesized(sid)
    \/ SweepSleep
    \/ \E E \in ExcessChoices(sessions) : SessionSweep(E)

SweepSpec == SweepInit /\ [][SweepNext]_vars

\* ------------------------------------------------------------------------
\* main.py : the background sweep loops, terminate, and a synth call that is
\* in progress at shutdown
\* ------------------------------------------------------------------------

Loops == {"audio", "session"}

\* the session stores commands may have filled before the first reply
LifeStores ==
    {[x \in S |-> NewSessionState] : S \in SUBSET Sessions}

\* audio, session: position of each loop task ("none" before the tasks are
\* created, "ended" after the coroutine returned, "cancelled" after it took
\* the CancelledError); thread: a _cleanup thread of cleanup_dir is running;
\* req: loops with a cancellation requested and not yet delivered;
\* term: position of terminate; started: _cleanup_task_started;
\* client: self._session of the provider ("none", "open", "closed");
\* cut: the attempt in flight when the client session was closed;
\* refused: an attempt found no usable client session;
\* failed: loops one of whose iterations raised a non-cancellation error;
\* sbit: flips at every session sweep
NoLife ==
    [audio |-> "none", session |-> "none", thread |-> FALSE, req |-> {},
     term |-> "idle", started |-> FALSE, client |-> "none", cut |-> 0,
     refused |-> FALSE, failed |-> {}, sbit |-> FALSE]

LoopDone(pc) == pc \in {"ended", "cancelled"}

\* a terminate that cancels no task
NeedsCancelNever(pc) == FALSE

\* "if not task.done()": the task is cancelled and awaited
NeedsCancel(pc) == ~LoopDone(pc)

\* _start_background_tasks: both loop tasks are created once
LifeStart ==
    /\ ~probe.started
    /\ probe.term = "idle"
    /\ probe' = [probe EXCEPT !.started = TRUE, !.audio = "created", !.session = "created"]
    /\ UNCHANGED <<now, cfg, received, sessions, inflight, task, call, files, prev, lastSuccess>>

\* a reply of the session is synthesized: _update_session_state
LifeSynthesized(sid) ==
    /\ probe.started
    /\ probe.term = "idle"
    /\ GetSessionState(sessions, sid)[sid].last_ts < now
    /\ sessions' = [GetSessionState(sessions, sid) EXCEPT
                      ![sid] = UpdateSessionState(@, [emotion |-> "neutral", voice |-> "neutral"], now)]
    /\ UNCHANGED <<now, cfg, received, inflight, task, call, files, prev, lastSuccess, probe>>

\* _periodic_audio_cleanup: cleanup_dir hands _cleanup to a thread
AudioSweepStart ==
    /\ probe.audio \in {"created", "sleeping"}
    /\ "audio" \notin probe.req
    /\ probe' = [probe EXCEPT !.audio = "sweeping", !.thread = TRUE]
    /\ UNCHANGED <<now, cfg, received, sessions, inflight, task, call, files, prev, lastSuccess>>

\* asyncio.to_thread raises (no thread can be started): the handler outside
\* the while loop logs the error and the coroutine returns
AudioSweepFail ==
    /\ probe.audio \in {"created", "sleeping"}
    /\ "audio" \notin probe.req
    /\ probe' = [probe EXCEPT !.audio = "ended", !.failed = @ \cup {"audio"}]
    /\ UNCHANGED <<now, cfg, received, sessions, inflight, task, call, files, prev, lastSuccess>>

\* the file a synth call is writing or has just written is younger than the ttl
FreshFiles ==
    IF call[Driver].pc \in {"writing", "validate"} THEN {call[Driver].key} ELSE {}

\* the _cleanup thread ends, having unlinked the files D older than the ttl;
\* the loop, unless cancelled meanwhile, goes to sleep
AudioThreadDone(D) ==
    /\ probe.thread
    /\ files' = [k \in (DOMAIN files) \ D |-> files[k]]
    /\ probe' = [probe EXCEPT !.thread = FALSE,
                              !.audio = IF @ = "sweeping" /\ "audio" \notin probe.req
                                        THEN "sleeping" ELSE @]
    /\ UNCHANGED <<now, cfg, received, sessions, inflight, task, call, prev, lastSuccess>>

\* _periodic_session_cleanup: the sleep ends and _cleanup_stale_sessions runs
SessionLoopIter(E) ==
    /\ probe.session \in {"created", "sleeping"}
    /\ "session" \notin probe.req
    /\ sessions' = CleanupStaleSessions(sessions, now, E)
    /\ probe' = [probe EXCEPT !.session = "sleeping", !.sbit = ~@]
    /\ UNCHANGED <<now, cfg, received, inflight, task, call, files, prev, lastSuccess>>

\* the sweep raises: the handler outside the while loop logs the error and
\* the coroutine returns
SessionLoopFail ==
    /\ probe.session \in {"created", "sleeping"}
    /\ "session" \notin probe.req
    /\ probe' = [probe EXCEPT !.session = "ended", !.failed = @ \cup {"session"}]
    /\ UNCHANGED <<now, cfg, received, sessions, inflight, task, call, files, prev, lastSuccess>>

\* the CancelledError is thrown into the loop at its await and re-raised
LoopCancelled(l) ==
    /\ l \in probe.req
    /\ probe' = [probe EXCEPT ![l] = "cancelled", !.req = @ \ {l}]
    /\ UNCHANGED <<now, cfg, received, sessions, inflight, task, call, files, prev, lastSuccess>>

\* terminate from the given stage up to its next suspension: a task that is
\* not done is cancelled and awaited; then the client is closed (a suspension
\* only if a session is open) and the session store cleared
TermAdvance(p, stage) ==
    IF stage = "audio" /\ p.started /\ NeedsCancel(p.audio)
    THEN [p EXCEPT !.req = @ \cup {"audio"}, !.term = "wait_audio"]
    ELSE IF stage \in {"audio", "session"} /\ p.started /\ NeedsCancel(p.session)
    THEN [p EXCEPT !.req = @ \cup {"session"}, !.term = "wait_session"]
    ELSE IF p.client = "open"
    THEN [p EXCEPT !.term = "closing", !.client = "closed",
                   !.cut = IF call[Driver].pc = "post" THEN call[Driver].attempt ELSE 0]
    ELSE [p EXCEPT !.term = "returned"]

TermEffect(p) ==
    /\ probe' = p
    /\ sessions' = IF p.term = "returned" THEN [x \in {} |-> NewSessionState] ELSE sessions
    /\ UNCHANGED <<now, cfg, received, inflight, task, call, files, prev, lastSuccess>>

\* the host calls terminate
TerminateCall ==
    /\ probe.term = "idle"
    /\ TermEffect(TermAdvance(probe, "audio"))

\* "await task" returns once the task is done
TerminateResume(l) ==
    /\ probe.term = IF l = "audio" THEN "wait_audio" ELSE "wait_session"
    /\ LoopDone(probe[l])
    /\ TermEffect(TermAdvance(probe, IF l = "audio" THEN "session" ELSE "close"))

\* SiliconFlowTTS.close resumes: self._session = None; terminate clears the store
TerminateClosed ==
    /\ probe.term = "closing"
    /\ TermEffect([probe EXCEPT !.term = "returned", !.client = "none"])

\* a command calls synth; past the cache check the client session is created
LifeCall(a) ==
    /\ probe.term = "idle"
    /\ call[Driver].pc \in {"idle", "returned"}
    /\ LET cl == SynthStart(files, CacheKey(a[1], a[2], a[3]))
       IN /\ call' = [call EXCEPT ![Driver] = cl]
          /\ probe' = [probe EXCEPT !.client = IF cl.pc = "post" THEN "open" ELSE @]
    /\ UNCHANGED <<now, cfg, received, sessions, inflight, task, files, prev, lastSuccess>>

\* an attempt of the call: with an open client session the provider answers;
\* the attempt in flight when the session was closed ends either way; a later
\* attempt finds a closed session or None and its exception is the answer
LifeResponse(r) ==
    /\ call[Driver].pc = "post"
    /\ LET usable == probe.client = "open" \/ call[Driver].attempt = probe.cut
       IN /\ ~usable => r = NetException
          /\ probe' = [probe EXCEPT !.refused = @ \/ ~usable]
    /\ call' = [call EXCEPT ![Driver] = AfterResponse(call[Driver], r)]
    /\ UNCHANGED <<now, cfg, received, sessions, inflight, task, files, prev, lastSuccess>>

LifeArgs == {<< <<"w">>, "vh", 10 >>}

LifeInit ==
    /\ now = StartTime
    /\ cfg = Config(100, 0, 0, FALSE, TRUE, FALSE, VoiceFull, {}, TRUE)
    /\ received = 0
    /\ sessions \in LifeStores
    /\ inflight = {}
    /\ task = [i \in Tasks |-> IdleTask]
    /\ call = [c \in Callers |-> IdleCall]
    /\ files = [x \in {} |-> 0]
    /\ prev = NoPrev
    /\ lastSuccess = [x \in Sessions |-> -1]
    /\ probe = NoLife

LifeNext ==
    \/ LifeStart
    \/ \E sid \in Sessions : LifeSynthesized(sid)
    \/ AudioSweepStart
    \/ AudioSweepFail
    \/ \E D \in SUBSET ((DOMAIN files) \ FreshFiles) : AudioThreadDone(D)
    \/ \E E \in ExcessChoices(sessions) : SessionLoopIter(E)
    \/ SessionLoopFail
    \/ \E l \in Loops : LoopCancelled(l)
    \/ TerminateCall
    \/ \E l \in Loops : TerminateResume(l)
    \/ TerminateClosed
    \/ \E a \in LifeArgs : LifeCall(a)
    \/ \E r \in ProviderSome \cup {NetException} : LifeResponse(r)
    \/ SynthWriteOpen(Driver)
    \/ SynthWriteDone(Driver)
    \/ SynthValidate(Driver)
    \/ SynthCleanup(Driver)

LifeSpec == LifeInit /\ [][LifeNext]_vars

\* ------------------------------------------------------------------------
\* main.py : on_decorating_result when one of its stages raises an
\* unexpected exception
\* ------------------------------------------------------------------------

\* the stages of the handler in which the exception is raised: step 3
\* (marker stripping), steps 4-5 (text extraction), step 7 (gating),
\* determine_emotion and generate_audio inside process, step 10 (build)
FaultStages == {"strip", "extract", "gate", "emotion", "synth", "build"}

\* steps 3 to 6 when step 3 raises: its except clause logs the error and
\* result.chain keeps the chain as received
PrepareReplyUnstripped(r, show_references) ==
    LET text == strip_head_many(normalize_text(JoinParts(r.chain))).text
        processed == process_text(text)
    IN [chain |-> r.chain, is_llm |-> r.is_llm, chain1 |-> r.chain,
        tts_text |-> processed.speak,
        send_text |-> BuildSendText(processed, show_references),
        refs |-> show_references]

PreparedFault ==
    {PrepareReply(r, TRUE) : r \in RepliesPipeline}

PreparedFaultUnstripped ==
    {PrepareReplyUnstripped(r, TRUE) : r \in RepliesPipeline}

\* the handler from its entry to its first suspension (or to its return) when
\* the given stage raises: only step 3 and process have an except clause; steps
\* 4 to 8 are outside any try, and the try around process and build has a
\* finally clause alone
DecorateFault(r, sid, roll, stage) ==
    LET base == [IdleTask EXCEPT !.sid = sid, !.is_llm = r.is_llm, !.orig = r.chain,
                                 !.chain = r.chain, !.pc = "done", !.seq = received + 1]
        keep(t) == [t |-> t, sess |-> sessions, infl |-> inflight, cl |-> IdleCall]
        chain1 == r.chain1
        tts_text == r.tts_text
        send_text == r.send_text
        t3 == [base EXCEPT !.chain = chain1,
                           !.fault = IF stage = "strip" THEN stage ELSE "none"]
        t5 == [t3 EXCEPT !.tts_text = tts_text, !.send_text = send_text]
        sess7 == GetSessionState(sessions, sid)
        st == sess7[sid]
        res == check_all(cfg, CharLen(tts_text), st, HasNonPlain(chain1), now, roll)
        t7 == [t5 EXCEPT !.gate = res]
        sig == Signature(sid, tts_text)
        de == determine_emotion(st, tts_text)
        sess9 == [sess7 EXCEPT ![sid] = de.st]
        pv == pick_voice_for_emotion(cfg.voice_map, de.emotion)
        speed == get_speed_for_emotion(cfg.speed_map, de.emotion)
        t9 == [t7 EXCEPT !.sig = sig, !.emotion = de.emotion, !.voice = pv.key,
                         !.voice_uri = pv.voice, !.speed = speed]
        cl == SynthStart(files, CacheKey(tts_text, pv.voice, speed))
    IN IF ~r.is_llm \/ r.chain = <<>> THEN keep([base EXCEPT !.outcome = "not_llm"])
       ELSE IF ~IsSessionEnabled(sid) THEN keep([base EXCEPT !.outcome = "disabled"])
       ELSE IF stage = "extract"
            THEN keep([t3 EXCEPT !.outcome = "raised", !.fault = stage])
       ELSE IF ~HasTextParts(chain1) THEN keep([t3 EXCEPT !.outcome = "empty"])
       ELSE IF Strip(tts_text) = <<>>
            THEN keep([t5 EXCEPT !.chain = <<Plain(send_text)>>, !.outcome = "empty"])
       ELSE IF stage = "gate"
            THEN [t |-> [t5 EXCEPT !.outcome = "raised", !.fault = stage],
                  sess |-> sess7, infl |-> inflight, cl |-> IdleCall]
       ELSE IF ~res.passed
            THEN [t |-> [t7 EXCEPT !.outcome = "rejected",
                                   !.chain = IF res.reason = "mixed"
                                             THEN <<Plain(send_text)>> \o NonPlainOf(chain1)
                                             ELSE chain1],
                  sess |-> sess7, infl |-> inflight, cl |-> IdleCall]
       ELSE IF IsDuplicate(inflight, sig)
            THEN [t |-> [t7 EXCEPT !.outcome = "duplicate", !.sig = sig],
                  sess |-> sess7, infl |-> inflight, cl |-> IdleCall]
       ELSE IF stage = "emotion"
            THEN [t |-> [t7 EXCEPT !.outcome = "failed", !.sig = sig, !.fault = stage,
                                   !.chain = FallbackChain(send_text)],
                  sess |-> sess7, infl |-> Discard(inflight \cup {sig}, sig), cl |-> IdleCall]
       ELSE IF pv.voice = ""
            THEN [t |-> [t9 EXCEPT !.outcome = "no_voice", !.chain = FallbackChain(send_text)],
                  sess |-> sess9, infl |-> Discard(inflight \cup {sig}, sig), cl |-> IdleCall]
       ELSE IF stage = "synth"
            THEN [t |-> [t9 EXCEPT !.outcome = "failed", !.fault = stage,
                                   !.chain = FallbackChain(send_text)],
                  sess |-> sess9, infl |-> Discard(inflight \cup {sig}, sig), cl |-> IdleCall]
       ELSE IF cl.pc = "returned" /\ cl.result = NoKey
            THEN [t |-> [t9 EXCEPT !.outcome = "failed", !.chain = FallbackChain(send_text)],
                  sess |-> sess9, infl |-> Discard(inflight \cup {sig}, sig), cl |-> cl]
       ELSE [t |-> [t9 EXCEPT !.pc = IF cl.pc = "returned" THEN "gen_validate" ELSE "synth",
                              !.fault = stage],
             sess |-> sess9, infl |-> inflight \cup {sig}, cl |-> cl]

\* a reply is handed to the handler, one of whose stages will raise
DecorateFaultStart(r, sid, roll, stage) ==
    /\ task[1].pc \in {"idle", "done"}
    /\ received < MaxReplies
    /\ r.refs = cfg.show_references
    /\ LET d == DecorateFault(r, sid, roll, stage)
       IN /\ task' = [task EXCEPT ![1] = d.t]
          /\ sessions' = d.sess
          /\ inflight' = d.infl
          /\ call' = [call EXCEPT ![1] = d.cl]
    /\ received' = received + 1
    /\ UNCHANGED <<now, cfg, files, prev, lastSuccess, probe>>

\* process and the handler finish when no fault is due in step 10
GenValidateNoFault(i) ==
    /\ task[i].fault # "build"
    /\ GenValidate(i)

\* process returns the audio and has updated the session; build raises: the
\* finally clause discards the signature and the exception leaves the handler
GenValidateFault(i) ==
    /\ task[i].pc = "gen_validate"
    /\ task[i].fault = "build"
    /\ LET t == task[i]
       IN IF ValidAudioFile(files, call[i].result)
          THEN /\ sessions' = [sessions EXCEPT ![t.sid] = UpdateSessionState(@, t, now)]
               /\ lastSuccess' = [lastSuccess EXCEPT ![t.sid] = now]
               /\ task' = [task EXCEPT ![i].pc = "done", ![i].outcome = "raised"]
          ELSE /\ task' = [task EXCEPT ![i].pc = "done", ![i].outcome = "failed",
                              ![i].chain = FallbackChain(t.send_text)]
               /\ UNCHANGED <<sessions, lastSuccess>>
    /\ inflight' = Discard(inflight, task[i].sig)
    /\ UNCHANGED <<now, cfg, received, call, files, prev, probe>>

FaultInit ==
    /\ InitCommon
    /\ cfg \in {c \in ConfigsPipeline : c.show_references}

FaultNext ==
    \/ \E r \in PreparedFault, sid \in Sessions, roll \in RollsPipeline,
          stage \in FaultStages \ {"strip"} :
          DecorateFaultStart(r, sid, roll, stage)
    \/ \E r \in PreparedFaultUnstripped, sid \in Sessions, roll \in RollsPipeline :
          DecorateFaultStart(r, sid, roll, "strip")
    \/ \E r \in ProviderSome : SynthResponse(1, r)
    \/ SynthWriteOpen(1)
    \/ SynthWriteDone(1)
    \/ SynthValidate(1)
    \/ SynthCleanup(1)
    \/ GenValidateNoFault(1)
    \/ GenValidateFault(1)
    \/ Tick

FaultSpec == FaultInit /\ [][FaultNext]_vars

\* ------------------------------------------------------------------------
\* pick_voice_for_emotion applied directly to bounded voice maps
\* ------------------------------------------------------------------------

\* entries of a voice map
MaxVoiceEntries == 3

\* keys a configured voice map may carry (the emotions and one other key)
VoiceKeys == EMOTIONS \cup {"custom"}

VoiceId(k) ==
    CASE k = "happy" -> "vh"
      [] k = "sad" -> "vs"
      [] k = "angry" -> "va"
      [] k = "neutral" -> "vn"
      [] OTHER -> "vc"

\* voice maps in iteration order: distinct keys, a voice id or an empty value
VoiceMaps ==
    UNION {{vm \in [1..n -> {<<k, v>> : k \in VoiceKeys, v \in {"", "vh", "vs", "va", "vn", "vc"}}] :
              /\ \A i \in 1..n : vm[i][2] \in {"", VoiceId(vm[i][1])}
              /\ \A i, j \in 1..n : i # j => vm[i][1] # vm[j][1]} :
           n \in 0..MaxVoiceEntries}

PickVoiceProbe(vm, emotion) ==
    /\ probe = NoProbe
    /\ probe' = [vm |-> vm, emotion |-> emotion,
                 out |-> pick_voice_for_emotion(vm, emotion)]
    /\ UNCHANGED <<now, cfg, received, sessions, inflight, task,
                   call, files, prev, lastSuccess>>

VoiceInit ==
    /\ InitCommon
    /\ cfg \in ConfigsPipeline

VoiceNext ==
    \E vm \in VoiceMaps, emotion \in EMOTIONS : PickVoiceProbe(vm, emotion)

VoiceSpec == VoiceInit /\ [][VoiceNext]_vars

\* ------------------------------------------------------------------------
\* The reply pipeline with the session's text+voice commands
\* ------------------------------------------------------------------------

\* the mixed-content default off and on; every other check passes
ConfigsMixed ==
    {Config(100, 0, 0, m, TRUE, FALSE, VoiceFull, {}, TRUE) : m \in BOOLEAN}

\* replies of plain text alone, with allowed components and with others
RepliesMixed ==
    {Reply(c, TRUE) : c \in ChainShapes(<<"w">>)
                          \cup {<<Comp("At"), Plain(<<"w">>), Comp("Face")>>,
                                <<Plain(<<"sad">>), Comp("Image"), Comp("File")>>}}

PreparedMixed == {PrepareReply(r, TRUE) : r \in RepliesMixed}

\* cmd_tts_text_voice_on / _off / _reset: the session record is created if
\* absent and its override set to True, False or None
cmd_tts_text_voice(sid, v) ==
    /\ GetSessionState(sessions, sid)[sid].text_voice_enabled # v
    /\ sessions' = [GetSessionState(sessions, sid) EXCEPT ![sid].text_voice_enabled = v]
    /\ UNCHANGED <<now, cfg, received, inflight, task, call, files, prev,
                   lastSuccess, probe>>

MixedInit ==
    /\ InitCommon
    /\ cfg \in ConfigsMixed

MixedNext ==
    \/ \E sid \in Sessions, v \in {"true", "false", None} : cmd_tts_text_voice(sid, v)
    \/ \E r \in PreparedMixed, sid \in Sessions, roll \in RollsPipeline :
          DecorateStart(1, r, sid, roll)
    \/ \E r \in ProviderFew : SynthResponse(1, r)
    \/ SynthWriteOpen(1)
    \/ SynthWriteDone(1)
    \/ SynthValidate(1)
    \/ SynthCleanup(1)
    \/ GenValidate(1)

MixedSpec == MixedInit /\ [][MixedNext]_vars

\* ------------------------------------------------------------------------
\* strip_head and strip_head_many applied directly to bounded texts
\* ------------------------------------------------------------------------

\* applications of strip_head to one text, each to the result of the last
MaxStrips == 2

\* the labels written inside a bracketed tag: the four canonical words, an
\* English and a Chinese synonym of happy, and a word of no table
TagLabels == {"happy", "sad", "angry", "neutral", "joy", "zh", "w"}

\* what a text may begin with: nothing, a bracketed tag with a label or
\* without one, the bare tag, a tag written around a tag
MarkerHeads ==
    {<<>>, <<"[", "T", "]">>, <<"T">>, <<"T", ":", "sad">>, Nest("happy", Marker("sad"))}
      \cup {Marker(l) : l \in TagLabels}

\* what follows the head
MarkerRemainders ==
    {<<>>, <<"w">>, <<" ", "w", " ">>, <<":", " ", "w">>, <<":", " ", ":", "w">>,
     <<"[", "w", "]", " ">>, <<" ", "[", "w">>, <<"w", " ">> \o Marker("sad"),
     <<"[", "T", " ", "w", "]">>}

MarkerTexts ==
    {h1 \o h2 \o r : h1 \in MarkerHeads, h2 \in MarkerHeads, r \in MarkerRemainders}

\* the record of an application: the text it was applied to, the text and
\* the label it returned, and the text first given
MarkerRun(op, text, before, res, n) ==
    [op |-> op, text |-> text, before |-> before, out |-> res.text,
     label |-> res.label, n |-> n]

\* strip_head(text) on a text of the input set
StripHeadProbe(s) ==
    /\ probe = NoProbe
    /\ probe' = MarkerRun("strip_head", s, s, strip_head(s), 1)
    /\ UNCHANGED <<now, cfg, received, sessions, inflight, task,
                   call, files, prev, lastSuccess>>

\* strip_head applied to the text the previous application returned
StripHeadAgain ==
    /\ probe # NoProbe
    /\ probe.op = "strip_head"
    /\ probe.n < MaxStrips
    /\ probe' = MarkerRun("strip_head", probe.text, probe.out, strip_head(probe.out),
                          probe.n + 1)
    /\ UNCHANGED <<now, cfg, received, sessions, inflight, task,
                   call, files, prev, lastSuccess>>

\* strip_head_many(text) on a text of the input set
StripHeadManyProbe(s) ==
    /\ probe = NoProbe
    /\ probe' = MarkerRun("strip_head_many", s, s, strip_head_many(s), 1)
    /\ UNCHANGED <<now, cfg, received, sessions, inflight, task,
                   call, files, prev, lastSuccess>>

MarkerInit ==
    /\ InitCommon
    /\ cfg \in ConfigsPipeline

MarkerNext ==
    \/ \E s \in MarkerTexts : StripHeadProbe(s)
    \/ StripHeadAgain
    \/ \E s \in MarkerTexts : StripHeadManyProbe(s)

MarkerSpec == MarkerInit /\ [][MarkerNext]_vars

\* ------------------------------------------------------------------------
\* classify applied directly to bounded texts
\* ------------------------------------------------------------------------

\* tokens of the texts handed to classify
MaxTextLen == 3

\* a plain word, one keyword of sad and of angry, two of happy (one of them
\* Chinese), an exclamation mark, the tag (a word in upper case), a url and a
\* fenced code block in lower and in upper case, white space
ClassifyTokens ==
    {"w", "sad", "lol", "zh", "tmd", "!", "T", "url", "URL", "fence", "FENCE", " "}

ClassifyTexts == UNION {[1..n -> ClassifyTokens] : n \in 0..MaxTextLen}

\* classify(text) on a text of the input set
ClassifyProbe(s) ==
    /\ probe = NoProbe
    /\ probe' = [op |-> "classify", text |-> s, out |-> classify(s)]
    /\ UNCHANGED <<now, cfg, received, sessions, inflight, task,
                   call, files, prev, lastSuccess>>

ClassifyInit ==
    /\ InitCommon
    /\ cfg \in ConfigsPipeline

ClassifyNext == \E s \in ClassifyTexts : ClassifyProbe(s)

ClassifySpec == ClassifyInit /\ [][ClassifyNext]_vars

\* ------------------------------------------------------------------------
\* The concurrent reply pipeline under a cooldown, with and without voices
\* ------------------------------------------------------------------------

ConfigsFrame ==
    {Config(100, 0, 2, FALSE, TRUE, FALSE, VoiceFull, {}, TRUE),
     Config(100, 0, 0, FALSE, TRUE, FALSE, VoiceNone, {}, TRUE)}

FrameInit ==
    /\ InitCommon
    /\ cfg \in ConfigsFrame

FrameSpec == FrameInit /\ [][Next]_vars

\* ------------------------------------------------------------------------
\* The reply pipeline on replies that hold a url or a fenced code block
\* ------------------------------------------------------------------------

\* a url or a fenced block alone, beside a plain word and beside a keyword,
\* and two texts without either
TextsInfo ==
    {<<"url">>, <<"w", " ", "url">>, <<"sad", " ", "url">>, <<"fence">>,
     <<"lol", " ", "fence">>, <<"w">>, <<"sad">>}

RepliesInfo == {Reply(<<Plain(t)>>, TRUE) : t \in TextsInfo}

PreparedInfo == {PrepareReply(r, TRUE) : r \in RepliesInfo}

InfoInit ==
    /\ InitCommon
    /\ cfg = Config(100, 0, 0, FALSE, TRUE, FALSE, VoiceFull, {}, TRUE)

InfoNext ==
    \/ \E r \in PreparedInfo, sid \in Sessions, roll \in RollsPipeline :
          DecorateStart(1, r, sid, roll)
    \/ \E r \in ProviderFew : SynthResponse(1, r)
    \/ SynthWriteOpen(1)
    \/ SynthWriteDone(1)
    \/ SynthValidate(1)
    \/ SynthCleanup(1)
    \/ GenValidate(1)

InfoSpec == InfoInit /\ [][InfoNext]_vars

\* ------------------------------------------------------------------------
\* main.py : on_llm_response followed by on_decorating_result, with a gate
\* that may reject the reply
\* ------------------------------------------------------------------------

\* the probability check passes for some draws only
ConfigsPending ==
    {Config(50, 0, 0, FALSE, TRUE, FALSE, VoiceFull, {}, TRUE)}

\* a draw that passes and a draw that fails
RollsPending == {0, 99}

PendingInit ==
    /\ InitCommon
    /\ cfg \in ConfigsPending

PendingNext ==
    \/ \E sid \in Sessions, a \in LlmAnswers : OnLlmResponse(sid, a)
    \/ \E i \in Tasks, p \in PreparedLlm, from_raw \in BOOLEAN,
          roll \in RollsPending :
          DecorateLlm(i, p, from_raw, roll)
    \/ \E i \in Tasks, r \in ProviderFew : SynthResponse(i, r)
    \/ \E i \in Tasks : SynthWriteOpen(i)
    \/ \E i \in Tasks : SynthWriteDone(i)
    \/ \E i \in Tasks : SynthValidate(i)
    \/ \E i \in Tasks : SynthCleanup(i)
    \/ \E i \in Tasks : GenValidate(i)

PendingSpec == PendingInit /\ [][PendingNext]_vars

\* ------------------------------------------------------------------------
\* commands/handlers.py : the commands that set the gate's parameters,
\* followed by replies.  Here cfg holds what the components were built with
\* in _init_components (condition_checker.prob, .text_limit, .cooldown,
\* .allow_mixed); probe holds the plugin's attributes self.prob,
\* self.text_limit, self.cooldown, self.allow_mixed, which the commands write
\* together with the stored configuration, and the answer of the last command.
\* ------------------------------------------------------------------------

\* core/constants.py, in percent
MIN_PROB == 0
MAX_PROB == 100

\* the arguments of tts_prob (percent), tts_limit and tts_cooldown
ProbArgs == {0, 100, 150}
LimitArgs == {-1, 6}
CooldownArgs == {-1, 2}

ConfigsCommand ==
    {Config(100, 0, 0, FALSE, TRUE, FALSE, VoiceFull, {}, TRUE)}

RepliesCommand ==
    {Reply(<<Plain(<<"w">>)>>, TRUE),
     Reply(<<Plain(<<"long", "w">>)>>, TRUE),
     Reply(<<Comp("Video"), Plain(<<"w">>)>>, TRUE)}

PreparedCommand == {PrepareReply(r, TRUE) : r \in RepliesCommand}

\* the plugin's attributes as _load_config reads them
Attributes(c) ==
    [prob |-> c.prob, text_limit |-> c.text_limit, cooldown |-> c.cooldown,
     allow_mixed |-> c.allow_mixed, cmd |-> "", msg |-> ""]

\* cmd_tts_prob(event, value)
cmd_tts_prob(a, v) ==
    IF MIN_PROB <= v /\ v <= MAX_PROB
    THEN [a EXCEPT !.prob = v, !.cmd = "tts_prob", !.msg = "set"]
    ELSE [a EXCEPT !.cmd = "tts_prob", !.msg = "usage"]

\* cmd_tts_limit(event, value)
cmd_tts_limit(a, v) ==
    IF v >= 0
    THEN [a EXCEPT !.text_limit = v, !.cmd = "tts_limit", !.msg = "set"]
    ELSE [a EXCEPT !.cmd = "tts_limit", !.msg = "usage"]

\* cmd_tts_cooldown(event, value)
cmd_tts_cooldown(a, v) ==
    IF v >= 0
    THEN [a EXCEPT !.cooldown = v, !.cmd = "tts_cooldown", !.msg = "set"]
    ELSE [a EXCEPT !.cmd = "tts_cooldown", !.msg = "usage"]

\* cmd_tts_mixed_on(event)
cmd_tts_mixed_on(a) ==
    [a EXCEPT !.allow_mixed = TRUE, !.cmd = "tts_mixed_on", !.msg = "set"]

\* cmd_tts_mixed_off(event)
cmd_tts_mixed_off(a) ==
    [a EXCEPT !.allow_mixed = FALSE, !.cmd = "tts_mixed_off", !.msg = "set"]

\* a command is handled; no component is touched
Command(a) ==
    /\ probe' = a
    /\ UNCHANGED <<now, cfg, received, sessions, inflight, task, call, files,
                   prev, lastSuccess>>

CommandInit ==
    /\ now = StartTime
    /\ received = 0
    /\ sessions = [x \in {} |-> NewSessionState]
    /\ inflight = {}
    /\ task = [i \in Tasks |-> IdleTask]
    /\ call = [c \in Callers |-> IdleCall]
    /\ files = [x \in {} |-> 0]
    /\ prev = NoPrev
    /\ lastSuccess = [x \in Sessions |-> -1]
    /\ cfg \in ConfigsCommand
    /\ probe = Attributes(cfg)

CommandNext ==
    \/ \E v \in ProbArgs : Command(cmd_tts_prob(probe, v))
    \/ \E v \in LimitArgs : Command(cmd_tts_limit(probe, v))
    \/ \E v \in CooldownArgs : Command(cmd_tts_cooldown(probe, v))
    \/ Command(cmd_tts_mixed_on(probe))
    \/ Command(cmd_tts_mixed_off(probe))
    \/ \E r \in PreparedCommand, roll \in RollsPipeline : DecorateStart(1, r, "s1", roll)
    \/ \E r \in ProviderFew : SynthResponse(1, r)
    \/ SynthWriteOpen(1)
    \/ SynthWriteDone(1)
    \/ SynthValidate(1)
    \/ SynthCleanup(1)
    \/ GenValidate(1)
    \/ Tick

CommandSpec == CommandInit /\ [][CommandNext]_vars

\* ------------------------------------------------------------------------
\* main.py : _start_background_tasks at the entry of on_decorating_result and
\* the audio sweep (_periodic_audio_cleanup, utils/audio.py : cleanup_dir)
\* beside the replies
\* ------------------------------------------------------------------------

\* started: _cleanup_task_started; audio_loops, session_loops: the loop tasks
\* created so far; thread: a _cleanup thread of cleanup_dir is running;
\* old: the files in TEMP_DIR whose age exceeds AUDIO_CLEANUP_TTL_SECONDS
NoBackground ==
    [started |-> FALSE, audio_loops |-> 0, session_loops |-> 0, thread |-> FALSE,
     old |-> {}]

\* the cache files an earlier run of the plugin left in TEMP_DIR, older than
\* the ttl: the reply "w" spoken with the neutral voice at speed 1.0
OldKeys == {CacheKey(<<"w">>, "vn", 10)}

TextsBackground == {<<"w">>, <<"long", "w">>}

RepliesBackground ==
    {Reply(<<Plain(t)>>, TRUE) : t \in TextsBackground}
      \cup {Reply(<<Plain(<<"w">>)>>, FALSE)}

PreparedBackground == {PrepareReply(r, TRUE) : r \in RepliesBackground}

\* _start_background_tasks without the test of _cleanup_task_started
start_background_tasks_unguarded(p) ==
    [p EXCEPT !.started = TRUE, !.audio_loops = @ + 1, !.session_loops = @ + 1]

\* _start_background_tasks(): no await between the test and the assignment
start_background_tasks(p) ==
    IF p.started THEN p
    ELSE [p EXCEPT !.started = TRUE, !.audio_loops = @ + 1, !.session_loops = @ + 1]

\* a reply is handed to on_decorating_result, which starts the background
\* tasks and runs to its first suspension
DecorateBackground(i, r, sid, roll) ==
    /\ task[i].pc \in {"idle", "done"}
    /\ \A j \in Tasks : j < i => task[j].pc \notin {"idle", "done"}
    /\ received < MaxReplies
    /\ r.refs = cfg.show_references
    /\ LET d == Decorate(r, sid, roll)
       IN /\ task' = [task EXCEPT ![i] = d.t]
          /\ sessions' = d.sess
          /\ inflight' = d.infl
          /\ call' = [call EXCEPT ![i] = d.cl]
    /\ received' = received + 1
    /\ probe' = start_background_tasks(probe)
    /\ UNCHANGED <<now, cfg, files, prev, lastSuccess>>

\* _periodic_audio_cleanup: cleanup_dir hands _cleanup to a thread
AudioCleanupStart ==
    /\ probe.audio_loops > 0
    /\ ~probe.thread
    /\ probe' = [probe EXCEPT !.thread = TRUE]
    /\ UNCHANGED <<now, cfg, received, sessions, inflight, task, call, files,
                   prev, lastSuccess>>

\* _cleanup: a file older than the ttl is unlinked
AudioCleanupUnlink(k) ==
    /\ probe.thread
    /\ k \in probe.old /\ FileExists(files, k)
    /\ files' = FileDel(files, k)
    /\ probe' = [probe EXCEPT !.old = @ \ {k}]
    /\ UNCHANGED <<now, cfg, received, sessions, inflight, task, call,
                   prev, lastSuccess>>

\* the _cleanup thread ends and the loop goes to sleep
AudioCleanupEnd ==
    /\ probe.thread
    /\ probe' = [probe EXCEPT !.thread = FALSE]
    /\ UNCHANGED <<now, cfg, received, sessions, inflight, task, call, files,
                   prev, lastSuccess>>

BackgroundInit ==
    /\ now = StartTime
    /\ received = 0
    /\ sessions = [x \in {} |-> NewSessionState]
    /\ inflight = {}
    /\ task = [i \in Tasks |-> IdleTask]
    /\ call = [c \in Callers |-> IdleCall]
    /\ prev = NoPrev
    /\ lastSuccess = [x \in Sessions |-> -1]
    /\ cfg = Config(100, 0, 0, FALSE, TRUE, FALSE, VoiceFull, {}, TRUE)
    /\ \E O \in SUBSET OldKeys :
          /\ files = [k \in O |-> AUDIO_MIN_VALID_SIZE]
          /\ probe = [NoBackground EXCEPT !.old = O]

BackgroundNext ==
    \/ \E i \in Tasks, r \in PreparedBackground, sid \in Sessions, roll \in RollsPipeline :
          DecorateBackground(i, r, sid, roll)
    \/ \E i \in Tasks, r \in ProviderFew : SynthResponse(i, r)
    \/ \E i \in Tasks : SynthWriteOpen(i)
    \/ \E i \in Tasks : SynthWriteDone(i)
    \/ \E i \in Tasks : SynthValidate(i)
    \/ \E i \in Tasks : SynthCleanup(i)
    \/ \E i \in Tasks : GenValidate(i)
    \/ AudioCleanupStart
    \/ \E k \in OldKeys : AudioCleanupUnlink(k)
    \/ AudioCleanupEnd

BackgroundSpec == BackgroundInit /\ [][BackgroundNext]_vars

\* ------------------------------------------------------------------------
\* main.py : _cleanup_stale_sessions beside a reply that is suspended in
\* synthesis.  The handler keeps the SessionState object it got from
\* _get_session_state; probe holds that object once the sweep has deleted it
\* from the store.
\* ------------------------------------------------------------------------

\* seq: the reply task (by its number) whose record the sweep deleted; st: that record
NoHeld == [seq |-> 0, st |-> NewSessionState]

\* the record of task i is no longer the one stored under its session key
Detached(i) == task[i].seq > 0 /\ probe.seq = task[i].seq

\* _cleanup_stale_sessions runs while the reply task may be suspended; the
\* record of the task's session, if deleted, lives on in the task's hands
SessionSweepBeside(E) ==
    /\ received > 0
    /\ sessions' = CleanupStaleSessions(sessions, now, E)
    /\ probe' = IF /\ task[1].pc \in {"synth", "gen_validate"}
                   /\ task[1].sid \in DOMAIN sessions
                   /\ task[1].sid \notin DOMAIN sessions'
                THEN [seq |-> task[1].seq, st |-> sessions[task[1].sid]]
                ELSE probe
    /\ UNCHANGED <<now, cfg, received, inflight, task, call, files, prev, lastSuccess>>

\* generate_audio validates the returned path; process and the handler finish
\* on the SessionState object the task holds, which is no longer in the store
GenValidateDetached(i) ==
    /\ task[i].pc = "gen_validate"
    /\ Detached(i)
    /\ LET t == task[i]
           st == probe.st
           tv == IF st.text_voice_enabled # None THEN st.text_voice_enabled = "true"
                 ELSE cfg.text_voice_default
       IN IF ValidAudioFile(files, call[i].result)
          THEN /\ lastSuccess' = [lastSuccess EXCEPT ![t.sid] = now]
               /\ task' = [task EXCEPT ![i].pc = "done", ![i].outcome = "success",
                              ![i].chain = build(t.chain, call[i].result, t.send_text, tv)]
          ELSE /\ task' = [task EXCEPT ![i].pc = "done", ![i].outcome = "failed",
                              ![i].chain = FallbackChain(t.send_text)]
               /\ UNCHANGED lastSuccess
    /\ inflight' = Discard(inflight, task[i].sig)
    /\ UNCHANGED <<now, cfg, received, sessions, call, files, prev, probe>>

BesideInit ==
    /\ now = StartTime
    /\ received = 0
    /\ sessions = [x \in {} |-> NewSessionState]
    /\ inflight = {}
    /\ task = [i \in Tasks |-> IdleTask]
    /\ call = [c \in Callers |-> IdleCall]
    /\ files = [x \in {} |-> 0]
    /\ prev = NoPrev
    /\ lastSuccess = [x \in Sessions |-> -1]
    /\ cfg \in ConfigsPipeline
    /\ probe = NoHeld

BesideNext ==
    \/ \E r \in PreparedPipeline, sid \in Sessions, roll \in RollsPipeline :
          DecorateStart(1, r, sid, roll)
    \/ \E r \in ProviderFew : SynthResponse(1, r)
    \/ SynthWriteOpen(1)
    \/ SynthWriteDone(1)
    \/ SynthValidate(1)
    \/ SynthCleanup(1)
    \/ ~Detached(1) /\ GenValidate(1)
    \/ GenValidateDetached(1)
    \/ \E E \in ExcessChoices(sessions) : SessionSweepBeside(E)
    \/ Tick

BesideSpec == BesideInit /\ [][BesideNext]_vars

\* ------------------------------------------------------------------------
\* Properties
\* ------------------------------------------------------------------------

\* the task is between the insertion of its signature and its return
InFlight(i) == task[i].pc \in {"synth", "gen_validate"}

\* C1: of the reply tasks with the same session and the same 50-character text
\* prefix, at most one is synthesizing at any time, and a task rejected as a
\* duplicate has issued no synthesis request.
C1_DedupOneSynthesis ==
    /\ \A i, j \in Tasks :
          (i # j /\ InFlight(i) /\ InFlight(j)) => task[i].sig # task[j].sig
    /\ \A i \in Tasks :
          (task[i].pc = "done" /\ task[i].outcome = "duplicate")
             => (call[i].pc = "idle" /\ call[i].attempt = 0)

C1_Witness ==
    \E i, j \in Tasks :
        /\ i # j
        /\ InFlight(i) /\ call[i].pc = "post"
        /\ task[j].pc = "done" /\ task[j].outcome = "duplicate"
        /\ task[j].sig = task[i].sig
        /\ task[j].tts_text # task[i].tts_text

\* C2: the in-flight set holds exactly the signatures of the tasks that are
\* between insertion and return: a returned task (success, failure, exception)
\* leaves nothing behind, a duplicate does not remove its owner's signature,
\* and the set is empty when no task is in flight.
C2_InflightOwned ==
    inflight = {task[i].sig : i \in {j \in Tasks : InFlight(j)}}

C2_Witness ==
    \E i, j \in Tasks :
        /\ i # j
        /\ task[i].pc = "done" /\ task[i].outcome = "raised"
        /\ task[j].pc = "done" /\ task[j].outcome = "duplicate"
        /\ task[j].sig = task[i].sig
        /\ inflight = {}

\* a task whose handler went past the session switch and has returned
Emitted(i) ==
    task[i].pc = "done" /\ task[i].outcome \notin {"", "not_llm", "disabled"}

\* C3: on every exit branch taken for an LLM reply of an enabled session, no
\* text segment of the emitted chain contains an exact-form marker.
C3_NoMarkerEmitted ==
    \A i \in Tasks :
        Emitted(i) =>
            \A k \in 1..Len(task[i].chain) :
                task[i].chain[k].kind = "Plain" => ~HasStrictMarker(task[i].chain[k].text)

\* the synth call of task i has ended without usable audio
NoAudio(i) ==
    /\ call[i].pc = "returned"
    /\ (call[i].result = NoKey \/ ~ValidAudioFile(files, call[i].result))

\* C4: a synth call that ends by exhausted retries, a permanent HTTP failure,
\* a non-audio answer or a failed validation returns None, and the handler of
\* a reply left without audio emits the cleaned text alone, no audio segment.
C4_NoAudioTextOnly ==
    /\ \A c \in Callers :
          (call[c].pc = "returned"
             /\ call[c].why \in {"exhausted", "permanent", "nonaudio", "invalid", "noapi"})
            => call[c].result = NoKey
    /\ \A i \in Tasks :
          (task[i].pc = "done" /\ NoAudio(i))
            => /\ task[i].outcome = "failed"
               /\ task[i].chain = <<Plain(task[i].send_text)>>
               /\ \A k \in 1..Len(task[i].chain) : task[i].chain[k].kind # "Record"

C4_Witness ==
    \E i \in Tasks :
        /\ task[i].pc = "done" /\ task[i].outcome = "failed"
        /\ call[i].pc = "returned" /\ call[i].why = "invalid"
        /\ task[i].send_text # <<>>

ProbeMixedFails ==
    /\ probe.has_non_plain
    /\ IF probe.st.text_voice_enabled = None THEN ~probe.c.allow_mixed
       ELSE probe.st.text_voice_enabled = "false"
ProbeLengthFails == probe.c.text_limit > 0 /\ probe.len > probe.c.text_limit
ProbeCooldownFails ==
    probe.c.cooldown > 0 /\ probe.tnow - probe.st.last_ts < probe.c.cooldown
ProbeProbabilityFails == probe.roll > probe.c.prob

\* C5: check_all reports the first failing check in the order mixed content,
\* length, cooldown, probability (length wins over cooldown), passes exactly
\* when none fails, and draws no random value when an earlier check fails.
C5_GateOrder ==
    probe # NoProbe =>
        /\ probe.out.reason = "mixed" <=> ProbeMixedFails
        /\ probe.out.reason = "length" <=> (~ProbeMixedFails /\ ProbeLengthFails)
        /\ probe.out.reason = "cooldown"
             <=> (~ProbeMixedFails /\ ~ProbeLengthFails /\ ProbeCooldownFails)
        /\ probe.out.reason = "probability"
             <=> (~ProbeMixedFails /\ ~ProbeLengthFails /\ ~ProbeCooldownFails
                    /\ ProbeProbabilityFails)
        /\ probe.out.passed
             <=> ~(ProbeMixedFails \/ ProbeLengthFails \/ ProbeCooldownFails
                     \/ ProbeProbabilityFails)
        /\ probe.out.draws = 0
             <=> (ProbeMixedFails \/ ProbeLengthFails \/ ProbeCooldownFails)

C5_Witness ==
    /\ probe # NoProbe
    /\ ProbeLengthFails /\ ProbeCooldownFails /\ ProbeProbabilityFails
    /\ probe.out.reason = "length" /\ probe.out.draws = 0

C7_CacheHit ==
    (call[Driver].pc = "returned" /\ prev.key = call[Driver].key /\ prev.result # NoKey)
      => /\ call[Driver].attempt = 0
         /\ call[Driver].result = prev.result
         /\ (prev.why = "ok" /\ prev.last.status = 200 /\ prev.requests = 1)
               => prev.requests + call[Driver].attempt = 1

C7_Witness ==
    /\ call[Driver].pc = "returned" /\ call[Driver].why = "hit"
    /\ prev.key = call[Driver].key /\ prev.why = "ok" /\ prev.requests = 1

\* a 429 or 5xx answer or a network-level exception
Retryable(r) == r = NetException \/ r.status = 429 \/ r.status \in 500..599

\* C8: a further request is issued only after a 429 or 5xx answer or a network
\* exception, and it is issued whenever retry budget remains; any other
\* non-2xx answer and a 2xx answer that is not audio end the call with None
\* and no further request.
C8_RetryPolicy ==
    \A c \in Callers :
        LET cl == call[c]
            ended == cl.pc \in {"cleanup", "returned"}
        IN /\ (cl.pc = "post" /\ cl.attempt > 1) => Retryable(cl.last)
           /\ (cl.last # NoResp /\ Retryable(cl.last) /\ ended)
                 => (cl.attempt = max_retries + 1 /\ cl.result = NoKey)
           /\ (cl.last # NoResp /\ ~Retryable(cl.last)
                 /\ ~(cl.last.status \in 200..299 /\ cl.last.ctype \in {"audio/mpeg", "application/octet-stream"}))
                 => (ended /\ cl.result = NoKey)

C8_Witness ==
    /\ call[Driver].pc = "returned" /\ call[Driver].attempt = 2
    /\ call[Driver].last.status = 404 /\ call[Driver].result = NoKey

\* C9: a synth call issues at most max_retries + 1 requests, and every call
\* that has issued a request returns, with a file path or with None.
C9_Terminates ==
    /\ [](call[Driver].attempt <= max_retries + 1)
    /\ [](call[Driver].pc = "returned"
            => call[Driver].result \in {NoKey, call[Driver].key})
    /\ (call[Driver].pc = "post") ~> (call[Driver].pc = "returned")

C9_Witness ==
    /\ call[Driver].pc = "returned" /\ call[Driver].attempt = max_retries + 1
    /\ call[Driver].result = NoKey /\ call[Driver].last = NetException

\* C10: after a call that failed validation has returned, no file for its
\* cache key remains on disk.
C10_InvalidDiscarded ==
    \A c \in Callers :
        (call[c].pc = "returned" /\ call[c].why = "invalid")
          => ~FileExists(files, call[c].key)

\* the voice map of the probe stores a non-empty voice under key k
ProbeHasVoice(k) ==
    \E i \in 1..Len(probe.vm) : probe.vm[i][1] = k /\ probe.vm[i][2] # ""

\* the keys tried by name, in the order of the lookup
ProbeCandidates ==
    <<probe.emotion, "neutral",
      CASE probe.emotion = "sad" -> "angry"
        [] probe.emotion = "angry" -> "angry"
        [] OTHER -> "happy",
      "happy", "angry">>

\* C11: pick_voice_for_emotion returns the first key with a non-empty voice in
\* the order emotion, neutral, preferred fallback, happy, angry, else the first
\* non-empty entry of the map in iteration order; the voice returned is the
\* non-empty value stored under the returned key; a map holding only a happy
\* entry answers emotion sad with the happy entry.
C11_VoiceLookupOrder ==
    probe # NoProbe =>
        LET named == {n \in 1..5 : ProbeHasVoice(ProbeCandidates[n])}
            filled == {i \in 1..Len(probe.vm) : probe.vm[i][2] # ""}
        IN /\ named # {}
                => probe.out.key = ProbeCandidates[CHOOSE n \in named : \A m \in named : n <= m]
           /\ (named = {} /\ filled # {})
                => probe.out.key = probe.vm[CHOOSE i \in filled : \A j \in filled : i <= j][1]
           /\ probe.out.voice # ""
                => \E i \in 1..Len(probe.vm) :
                      probe.vm[i] = <<probe.out.key, probe.out.voice>>
           /\ (probe.vm = <<<<"happy", "vh">>>> /\ probe.emotion = "sad")
                => probe.out = [key |-> "happy", voice |-> "vh"]

C11_Witness ==
    /\ probe # NoProbe
    /\ probe.vm = <<<<"happy", "vh">>>> /\ probe.emotion = "sad"
    /\ probe.out = [key |-> "happy", voice |-> "vh"]

\* the handler of task i went as far as choosing a voice
VoiceChosen(i) == task[i].emotion # None

\* C12: a reply gets no voice exactly when the configured voice map has no
\* non-empty entry; its handler then returns normally with no synthesis
\* request made, and its chain is the cleaned text alone.
C12_NoVoiceTextOnly ==
    \A i \in Tasks :
        VoiceChosen(i) =>
            /\ task[i].voice_uri = ""
                  <=> (\A k \in 1..Len(cfg.voice_map) : cfg.voice_map[k][2] = "")
            /\ task[i].voice_uri = ""
                  => /\ task[i].pc = "done" /\ task[i].outcome = "no_voice"
                     /\ call[i].pc = "idle" /\ call[i].attempt = 0
                     /\ task[i].chain = <<Plain(task[i].send_text)>>
                     /\ task[i].sig \notin inflight

C12_Witness ==
    \E i \in Tasks :
        /\ task[i].pc = "done" /\ task[i].outcome = "no_voice"
        /\ cfg.voice_map = VoiceNone
        /\ task[i].send_text # <<>>
        /\ task[i].chain = <<Plain(task[i].send_text)>>

\* task i has rewritten, with audio, a model reply made of the canonical
\* marker of emotion e followed by the body b
RewrittenWithAudio(i, e, b) ==
    /\ task[i].pc = "done" /\ task[i].outcome = "success"
    /\ task[i].llm_raw = <<"[", "T", ":", e, "]", " ">> \o b

PendingOf(sid) ==
    IF sid \in DOMAIN sessions THEN sessions[sid].pending_emotion ELSE None

\* C14: a reply whose emotion is determined while its session holds a valid
\* pending emotion gets that emotion, whatever the classifier says, and the
\* same step clears it; otherwise the classifier decides. A recorded pending
\* emotion is therefore used by one reply only, also among concurrent replies.
C14_PendingConsumedOnce ==
    [][\A i \in Tasks :
          (received' = received + 1 /\ task'[i].seq = received'
             /\ task'[i].emotion # None)
            => LET sid == task'[i].sid
                   pe == PendingOf(sid)
               IN /\ pe \in EMOTIONS
                       => (task'[i].emotion = pe /\ sessions'[sid].pending_emotion = None)
                  /\ pe \notin EMOTIONS
                       => (task'[i].emotion = classify(task'[i].tts_text)
                             /\ sessions'[sid].pending_emotion = None)]_vars

C14_Witness ==
    \E i, j \in Tasks :
        /\ i # j /\ task[i].sid = task[j].sid
        /\ InFlight(i) /\ InFlight(j)
        /\ task[i].llm_raw = <<"[", "T", ":", "happy", "]", " ", "sad">>
        /\ task[i].emotion = "happy" /\ classify(task[i].tts_text) = "sad"
        /\ task[j].llm_raw = <<"w">> /\ task[j].emotion = "neutral"
        /\ PendingOf(task[i].sid) = None

\* the step is a run of the session sweep
SweepStep == probe.phase = "due" /\ probe'.phase = "swept"

\* C15: after a session sweep every session last written longer ago than the
\* idle threshold is gone, and every session written within the threshold
\* (created, pending emotion or override written, synthesis completed) is
\* still stored, provided the store held no more sessions than the cap.
C15_SweepByLastTouch ==
    [][SweepStep =>
          \A sid \in DOMAIN sessions :
              /\ now - probe.touched[sid] > SESSION_MAX_IDLE_TIME
                    => sid \notin DOMAIN sessions'
              /\ (now - probe.touched[sid] <= SESSION_MAX_IDLE_TIME
                     /\ Cardinality(DOMAIN sessions) <= SESSION_MAX_COUNT)
                    => sid \in DOMAIN sessions']_vars

\* C16: after a session sweep the store holds at most SESSION_MAX_COUNT
\* sessions; the sessions evicted for the cap alone (not past the idle
\* threshold) have a last_ts no greater than that of any session kept or
\* evicted for no reason, and there are such evictions only when the cap was
\* exceeded.
C16_SweepCap ==
    [][SweepStep =>
          /\ Cardinality(DOMAIN sessions') <= SESSION_MAX_COUNT
          /\ \A e \in (DOMAIN sessions) \ (DOMAIN sessions') :
                now - sessions[e].last_ts <= SESSION_MAX_IDLE_TIME
                  => /\ Cardinality(DOMAIN sessions) > SESSION_MAX_COUNT
                     /\ \A k \in DOMAIN sessions' :
                           sessions[e].last_ts <= sessions[k].last_ts]_vars

C16_Witness ==
    /\ probe.phase = "swept"
    /\ probe.capped # {}
    /\ Cardinality(DOMAIN sessions) = SESSION_MAX_COUNT
    /\ \A k \in DOMAIN sessions : now - sessions[k].last_ts <= SESSION_MAX_IDLE_TIME

\* C17: a loop one of whose iterations failed with a non-cancellation error
\* goes on: it is sweeping or waiting for its next iteration, unless the
\* shutdown has cancelled it.
C17_LoopSurvivesError ==
    \A l \in probe.failed :
        probe[l] \in {"sleeping", "sweeping", "cancelled"} \/ l \in probe.req

\* C18: once terminate has returned both loops have finished, and from then on
\* neither loop starts a sweep (a cleanup thread already running may end).
C18_TerminateStopsLoops ==
    [][probe.term = "returned" =>
          /\ probe.audio \in {"none", "ended", "cancelled"}
          /\ probe.session \in {"none", "ended", "cancelled"}
          /\ probe'.audio = probe.audio
          /\ probe'.session = probe.session
          /\ probe'.sbit = probe.sbit
          /\ (~probe.thread => ~probe'.thread)]_vars

C18_Witness ==
    /\ probe.term = "returned"
    /\ probe.audio = "cancelled"
    /\ probe.session = "cancelled"
    /\ probe.sbit
    /\ probe.failed = {}

\* C19: a synth call in progress when terminate runs is not cut off: none of
\* its attempts fails for want of a client session, so it runs to its own
\* completion or to the end of its own retries.
C19_InflightRunsOut == ~probe.refused

\* C20: a reply during whose handling a stage of on_decorating_result raised
\* an unexpected error ends inside the handler: no exception leaves it and the
\* reply emitted is the cleaned text alone.
C20_FaultsCaught ==
    \A i \in Tasks :
        (task[i].pc = "done" /\ task[i].fault \in FaultStages)
          => /\ task[i].outcome # "raised"
             /\ task[i].fault # "strip"
                  => task[i].chain = FallbackChain(task[i].send_text)

\* the reply chain holds a component outside Plain, At, Reply, Image, Face
OutsideAllowList(ch) ==
    \E k \in 1..Len(ch) : ch[k].kind \notin {"Plain", "At", "Reply", "Image", "Face"}

\* the override of the session if it is set, else the global default
EffectiveMixed(sid) ==
    IF sid \in DOMAIN sessions /\ sessions[sid].text_voice_enabled # None
    THEN sessions[sid].text_voice_enabled = "true"
    ELSE cfg.allow_mixed

\* C21: when the gate of a reply is evaluated, it rejects for mixed content
\* exactly when the reply holds a component outside the allow-list and the
\* effective flag (the session's override if set, else the global default) is
\* false; a reply without such a component is never rejected for mixed content.
C21_MixedPolicy ==
    [][\A i \in Tasks :
          (received' = received + 1 /\ task'[i].seq = received'
             /\ task'[i].gate # NoGate)
            => /\ task'[i].gate.reason = "mixed"
                    <=> (OutsideAllowList(task'[i].orig) /\ ~EffectiveMixed(task'[i].sid))
               /\ task'[i].gate.reason = "mixed"
                    => (~task'[i].gate.passed /\ task'[i].outcome = "rejected")
               /\ ~OutsideAllowList(task'[i].orig) => task'[i].gate.reason # "mixed"]_vars

C21_Witness ==
    /\ cfg.allow_mixed
    /\ task[1].pc = "done" /\ task[1].outcome = "rejected"
    /\ task[1].gate.reason = "mixed"
    /\ OutsideAllowList(task[1].orig)
    /\ task[1].sid \in DOMAIN sessions
    /\ sessions[task[1].sid].text_voice_enabled = "false"

\* the text begins, after white space, with the tag in brackets (alone or
\* followed by a colon) or with the bare tag as a word of its own
HasLeadingMarker(s) ==
    LET p == SkipSp(s, 1)
        a == SkipSp(s, p + 1)
        b == SkipSp(s, a + 1)
    IN \/ IsOpen(At(s, p)) /\ At(s, a) = TAG /\ (IsColon(At(s, b)) \/ IsClose(At(s, b)))
       \/ At(s, p) = TAG /\ ~IsAlpha(At(s, p + 1))

\* C22: strip_head applied to a text with no leading marker returns the text
\* unchanged and no emotion.
C22_NoMarkerUnchanged ==
    (probe # NoProbe /\ probe.op = "strip_head" /\ ~HasLeadingMarker(probe.before))
      => (probe.out = probe.before /\ probe.label = None)

\* the text given begins with the exact marker [TAG:e]
BeginsWithMarker(s, e) == Len(s) >= 5 /\ SubSeq(s, 1, 5) = Marker(e)

\* the remainder without the white space, the run of separators and the white
\* space it begins with, and without the white space at its end
TrimmedRemainder(r) ==
    LET a == SkipSp(r, 1)
        b == SkipPunct(r, a)
        c == SkipSp(r, b)
    IN Strip(Drop(r, c - 1))

\* the text begins, after white space, with the tag, bare or in brackets
BeginsWithTag(s) ==
    LET p == SkipSp(s, 1)
    IN At(s, p) = TAG \/ (IsOpen(At(s, p)) /\ At(s, SkipSp(s, p + 1)) = TAG)

\* C23 as stated: strip_head applied to [TAG:E] followed by R returns R and E,
\* and a second application to that result changes nothing.
C23_StripYieldsRemainder ==
    \A e \in EMOTIONS :
        (probe # NoProbe /\ probe.op = "strip_head" /\ BeginsWithMarker(probe.text, e))
          => /\ probe.n = 1 => (probe.out = Drop(probe.text, 5) /\ probe.label = e)
             /\ probe.n = 2 => (probe.out = probe.before /\ probe.label = None)

\* C23 amended: strip_head applied to [TAG:E] followed by R returns emotion E
\* and R without its leading white space, separator run and white space and
\* without its trailing white space; a second application changes nothing
\* and returns no emotion unless that result begins with the tag again.
C23_StripYieldsTrimmedRemainder ==
    \A e \in EMOTIONS :
        (probe # NoProbe /\ probe.op = "strip_head" /\ BeginsWithMarker(probe.text, e))
          => /\ probe.n = 1
                  => /\ probe.out = TrimmedRemainder(Drop(probe.text, 5))
                     /\ probe.label = e
             /\ probe.n = 2
                  => /\ probe.before = TrimmedRemainder(Drop(probe.text, 5))
                     /\ ~BeginsWithTag(probe.before)
                          => (probe.out = probe.before /\ probe.label = None)

C23_Witness ==
    /\ probe # NoProbe
    /\ probe.op = "strip_head" /\ probe.n = 2
    /\ probe.text = Marker("angry") \o <<":", " ", "w">>
    /\ probe.before = <<"w">> /\ probe.out = <<"w">> /\ probe.label = None

\* the exact markers [TAG:e] the text begins with, one after the other:
\* their number and the emotion of the last one
RECURSIVE LeadingMarkers(_, _, _)
LeadingMarkers(s, k, last) ==
    IF \E e \in EMOTIONS : BeginsWithMarker(s, e)
    THEN LeadingMarkers(Drop(s, 5), k + 1, s[4])
    ELSE [count |-> k, last |-> last, rest |-> s]

\* C24: strip_head_many removes every consecutive leading marker and returns
\* the emotion of the last of them, and the text it returns begins with no
\* marker.
C24_LastMarkerWins ==
    (probe # NoProbe /\ probe.op = "strip_head_many")
      => LET lm == LeadingMarkers(probe.text, 0, None)
         IN /\ ~HasLeadingMarker(probe.out)
            /\ (lm.count >= 1 /\ ~BeginsWithTag(lm.rest)) => probe.label = lm.last

\* the text given begins with the bracketed tag holding the label l
BeginsWithLabel(s, l) == Len(s) >= 5 /\ SubSeq(s, 1, 5) = <<"[", "T", ":", l, "]">>

\* C25: strip_head removes a prefix [TAG:<label>] whose label is not one of
\* the four emotion words, Chinese labels included; it returns the canonical
\* emotion of a label of the synonym table and no emotion for any other.
C25_AnyLabelRemoved ==
    \A l \in TagLabels \ EMOTIONS :
        (probe # NoProbe /\ probe.op = "strip_head" /\ probe.n = 1
           /\ BeginsWithLabel(probe.text, l))
          => /\ probe.out = Strip(Drop(probe.text, 5))
             /\ probe.label = normalize_label(<<l>>)

\* the text holds a bare url or a fenced code block
HoldsUrlOrFence(s) ==
    \E i \in 1..Len(s) : s[i] \in {"url", "URL", "fence", "FENCE"}

\* C26: classify returns neutral for every text that holds a bare url or a
\* fenced code block, whatever keywords, exclamation marks or upper-case text
\* it also holds.
C26_InformationalNeutral ==
    (probe # NoProbe /\ probe.op = "classify" /\ HoldsUrlOrFence(probe.text))
      => probe.out = "neutral"

\* the highest of the three scores of a text, in tenths
TopScore(s) ==
    LET h == ClassifyScore(s, "happy")
        d == ClassifyScore(s, "sad")
        a == ClassifyScore(s, "angry")
    IN IF h >= d /\ h >= a THEN h ELSE IF d >= a THEN d ELSE a

\* C27: for a text that reaches the scoring, classify returns neutral when the
\* highest score is at most 0.5 (a lone exclamation mark scores 0.5) and
\* otherwise a label with the highest score, the first of happy, sad, angry
\* among equals.
C27_HighestScoreWins ==
    (probe # NoProbe /\ probe.op = "classify" /\ ~is_informational(probe.text))
      => LET s == probe.text
             top == TopScore(s)
         IN /\ top <= 5 => probe.out = "neutral"
            /\ top > 5
                 => /\ probe.out \in {"happy", "sad", "angry"}
                    /\ ClassifyScore(s, probe.out) = top
                    /\ probe.out = "sad" => ClassifyScore(s, "happy") < top
                    /\ probe.out = "angry"
                         => (ClassifyScore(s, "happy") < top /\ ClassifyScore(s, "sad") < top)
            /\ s = <<"!">> => (top = 5 /\ probe.out = "neutral")

C27_Witness ==
    /\ probe # NoProbe /\ probe.op = "classify"
    /\ probe.text = <<"lol", "sad", "tmd">> /\ probe.out = "happy"

\* the record of a session, a new one if the store holds none
RecordOf(ss, sid) == IF sid \in DOMAIN ss THEN ss[sid] ELSE NewSessionState

\* last_ts, last_emotion and last_voice are the same in both records
SameLastFields(a, b) ==
    /\ a.last_ts = b.last_ts
    /\ a.last_emotion = b.last_emotion
    /\ a.last_voice = b.last_voice

\* C28: last_ts, last_emotion and last_voice of a session change only in a
\* step in which a synthesis of that session succeeds; a reply that ends
\* rejected by the gate, as a duplicate, without a voice or with a failed
\* synthesis leaves them as they were, and last_ts never decreases.
C28_LastFieldsFrame ==
    [][\A sid \in Sessions :
          LET old == RecordOf(sessions, sid)
              new == RecordOf(sessions', sid)
          IN /\ ~SameLastFields(old, new)
                  => \E i \in Tasks :
                        /\ task[i].sid = sid /\ task[i].pc # "done"
                        /\ task'[i].pc = "done" /\ task'[i].outcome = "success"
             /\ new.last_ts >= old.last_ts
             /\ \A i \in Tasks :
                   (task'[i] # task[i] /\ task'[i].pc = "done" /\ task'[i].sid = sid
                      /\ task'[i].outcome \in {"rejected", "duplicate", "no_voice", "failed"})
                     => SameLastFields(old, new)]_vars

C28_Witness ==
    \E i, j \in Tasks :
        /\ task[i].pc = "done" /\ task[i].outcome = "success"
        /\ task[j].pc = "done" /\ task[j].outcome = "failed"
        /\ task[j].sid = task[i].sid /\ task[j].seq > task[i].seq
        /\ task[j].emotion # task[i].emotion
        /\ sessions[task[i].sid].last_emotion = task[i].emotion
        /\ sessions[task[i].sid].last_ts = lastSuccess[task[i].sid]

\* C29: a reply whose text holds a url or a fenced code block, handled in a
\* session with no pending emotion, is synthesized with emotion neutral.
C29_InformationalReplyNeutral ==
    \A i \in Tasks :
        (/\ task[i].emotion # None
         /\ \E k \in 1..Len(task[i].orig) :
               task[i].orig[k].kind = "Plain" /\ HoldsUrlOrFence(task[i].orig[k].text))
          => task[i].emotion = "neutral"

\* C30: a synthesis of a session succeeds no earlier than the cooldown after
\* the previous successful synthesis of that session, also when the replies
\* are handled concurrently.
C30_SuccessesApart ==
    [][\A i \in Tasks :
          (/\ task[i].pc # "done"
           /\ task'[i].pc = "done" /\ task'[i].outcome = "success"
           /\ cfg.cooldown > 0
           /\ lastSuccess[task[i].sid] >= 0)
            => now - lastSuccess[task[i].sid] >= cfg.cooldown]_vars

\* C31: when a reply's emotion is taken from the pending emotion of its
\* session, that pending emotion is the label on_llm_response parsed from the
\* same reply; a label recorded for a reply the gate rejected is not applied
\* to a later reply.
C31_PendingOfSameReply ==
    [][\A i \in Tasks :
          (/\ received' = received + 1 /\ task'[i].seq = received'
           /\ task'[i].emotion # None
           /\ PendingOf(task'[i].sid) \in EMOTIONS)
            => task'[i].emotion = probe.label]_vars

\* C32: when a synth call returns a path, by a cache hit or after a network
\* call, the file at that path exists and passes validation (it holds at
\* least the minimum valid size); also when an earlier call for the same key
\* has failed.
C32_ReturnedPathValid ==
    [][\A c \in Callers :
          (/\ call[c].pc # "returned" \/ call[c] # call'[c]
           /\ call'[c].pc = "returned"
           /\ call'[c].result # NoKey)
            => ValidAudioFile(files', call'[c].result)]_vars

\* C33: when on_decorating_result has returned, every component of the
\* original reply that is neither text nor audio (image, mention, quoted
\* reply, other passthrough components) is in the emitted chain, on every exit
\* branch.
C33_PassthroughKept ==
    \A i \in Tasks :
        task[i].pc = "done"
          => \A k \in 1..Len(task[i].orig) :
                task[i].orig[k].kind \notin {"Plain", "Record"}
                  => \E j \in 1..Len(task[i].chain) : task[i].chain[j] = task[i].orig[k]

\* C34: after a tts_prob, tts_limit, tts_cooldown, tts_mixed_on or
\* tts_mixed_off command has succeeded, the gate applied to a following reply
\* decides with the probability, length limit, cooldown and mixed-content
\* default that the commands have set.
C34_GateUsesNewSettings ==
    [][\A i \in Tasks :
          (/\ received' = received + 1 /\ task'[i].seq = received'
           /\ task'[i].gate.reason # "unchecked")
            => LET t == task'[i]
                   set == [cfg EXCEPT !.prob = probe.prob,
                                      !.text_limit = probe.text_limit,
                                      !.cooldown = probe.cooldown,
                                      !.allow_mixed = probe.allow_mixed]
                   st == GetSessionState(sessions, t.sid)[t.sid]
               IN \E roll \in RollsPipeline :
                     t.gate = check_all(set, CharLen(t.tts_text), st,
                                        HasNonPlain(t.orig), now, roll)]_vars

\* C35: while a reply task holds a path that synth returned and has not yet
\* put the audio segment into the reply, the audio sweep does not delete that
\* file; the audio path of a rewritten reply refers to a file that exists when
\* the reply is rewritten.
C35_SweepSparesPathsInUse ==
    [][\A i \in Tasks :
          /\ (task[i].pc = "gen_validate" /\ FileExists(files, call[i].result))
               => FileExists(files', call[i].result)
          /\ (task[i].pc # "done" /\ task'[i].pc = "done" /\ task'[i].outcome = "success")
               => FileExists(files', call[i].result)]_vars

\* C37: however many replies have entered on_decorating_result, one after the
\* other or while others are in progress, at most one audio sweep loop and at
\* most one session sweep loop have been created.
C37_LoopsStartedOnce ==
    probe.audio_loops <= 1 /\ probe.session_loops <= 1

C37_Witness ==
    /\ received = MaxReplies
    /\ \E i, j \in Tasks : i # j /\ InFlight(i) /\ InFlight(j)
    /\ probe.audio_loops = 1 /\ probe.session_loops = 1

\* C36: when a synthesis succeeds, the record stored under the session key
\* carries the update of that reply (last_ts is the time of the success), also
\* when a session sweep has run while the reply was suspended in synthesis;
\* the next reply of the session is therefore subject to the cooldown.
C36_UpdateSurvivesSweep ==
    [][\A i \in Tasks :
          (task[i].pc # "done" /\ task'[i].pc = "done" /\ task'[i].outcome = "success")
            => /\ task[i].sid \in DOMAIN sessions'
               /\ sessions'[task[i].sid].last_ts = now]_vars

\* TTS is switched off for session sid: listed as disabled in blacklist mode
SessionDisabled(sid) ==
    IF cfg.global_enable THEN sid \in cfg.disabled_sessions ELSE TRUE

\* C38: for a reply that is not an LLM reply, or whose session has TTS
\* disabled, on_decorating_result returns with the reply chain as it was
\* handed over, the session store and the in-flight set unchanged, and without
\* a synth call (no request, no file written).
C38_SkippedReplyUntouched ==
    [][\A i \in Tasks :
          (/\ received' = received + 1 /\ task'[i].seq = received'
           /\ ~task'[i].is_llm \/ SessionDisabled(task'[i].sid))
            => /\ task'[i].pc = "done"
               /\ task'[i].chain = task'[i].orig
               /\ sessions' = sessions
               /\ inflight' = inflight
               /\ call'[i].pc = "idle"
               /\ files' = files]_vars

C38_Witness ==
    \E i \in Tasks :
        /\ task[i].pc = "done" /\ task[i].is_llm
        /\ SessionDisabled(task[i].sid)
        /\ task[i].orig = <<Plain(Marker("happy") \o <<" ", "w">>), Comp("Image")>>
        /\ task[i].chain = task[i].orig
        /\ task[i].sid \notin DOMAIN sessions

====
